---- MODULE Spec2Model ----
(***************************************************************************)
(* A model of the binary codec layer of phantasmal-quest:                  *)
(*   - the script episode/area scanner and quest assembler (parse_quest),  *)
(*   - the entity table codec (parse_dat / write_dat),                     *)
(*   - the container codec (parse_qst / write_qst),                        *)
(*   - the model chunk parser (parse_njcm),                                *)
(*   - the area asset cache (get_area_render_data and                      *)
(*     get_area_collision_data).                                           *)
(* Every component has a specification of its own (SpecScript, SpecDat,    *)
(* SpecQst, SpecNj, SpecAssets), and SpecQstLong runs the chunk loops of   *)
(* the container codec on files of many chunks; the variables of the       *)
(* other components stay idle.                                             *)
(***************************************************************************)
EXTENDS Integers, Sequences, FiniteSets, TLC

VARIABLES
    \* ---- script scanner / quest assembler (parse_quest)
    operations,        \* bin.instructions: the decoded instruction stream
    function_offsets,  \* bin.function_offsets
    s_pc,              \* position inside parse_quest
    s_i,               \* index of the next operation of the for-loop
    position,          \* get_func_operations: running byte offset
    func_found,        \* get_func_operations: func_found
    func_ops,          \* get_func_operations: func_ops
    func_0_ops,        \* parse_quest: result of get_func_operations
    episode,           \* parse_quest: episode
    areas,             \* parse_quest: areas (OrderedMap as a sequence of pairs)
    s_warn,            \* console.warn messages, in order
    quest,             \* result of new Quest(...)
    \* ---- entity table codec (write_dat, parse_dat)
    d_table,           \* the records handed to write_dat
    d_bytes,           \* the buffer of the cursor handed to parse_dat
    d_pos,             \* cursor.position
    d_pc,              \* "input", "written", "parse", "done" or "error"
    d_err,             \* the error thrown, "" if none
    d_objs,            \* parse_dat: objs
    d_npcs,            \* parse_dat: npcs
    d_unknowns,        \* parse_dat: unknowns
    d_warn,            \* console.warn messages, in order
    d_tampered,        \* whether a block header was overwritten after writing
    \* ---- container codec (write_qst, parse_qst)
    q_files,           \* params.files handed to write_qst
    q_pc,              \* "input", "chunks", "written", "parse", "done", "error"
    q_cursor,          \* the bytes of the container cursor
    q_total_size,      \* write_qst: total_size
    q_rot,             \* write_file_chunks: files (the rotation), as indexes
    q_chunk_nos,       \* write_file_chunks: chunk_nos
    q_i,               \* write_file_chunks: i
    q_taken,           \* data.position of every file handed to write_qst
    q_scenario,        \* what was done to the chunk stream before parsing
    q_written,         \* the container as write_qst returned it
    q_pos,             \* parse_qst: cursor.position
    q_headers,         \* parse_qst: headers
    q_parsed,          \* parse_files: files (a Map, in insertion order)
    q_warn,            \* console.warn messages, in order
    q_err,             \* the error thrown, "" if none
    q_result,          \* what parse_qst returned
    \* ---- model chunk parser (parse_njcm)
    n_bytes,           \* the buffer of the cursor handed to parse_njcm
    n_pc,              \* "start", "walk", "done", "null" or "error"
    n_stack,           \* the calls of parse_sibling_objects / parse_model to come
    n_positions,       \* positions
    n_normals,         \* normals
    n_cached,          \* cached_chunk_offsets
    n_vertices,        \* vertices: the vertex slot buffer
    n_warn,            \* console.warn messages, in order
    n_err,             \* the error thrown, "" if none
    n_visits,          \* the calls of parse_sibling_objects made, in order
    n_models,          \* the calls of parse_model made, in order
    n_earlier,         \* what the earlier calls of parse_njcm left behind
    \* ---- container codec, files of many chunks (write_file_chunks, parse_files)
    l_sizes,           \* data.size of every file handed to write_file_chunks
    l_pc,              \* "chunks", "done" or "idle"
    l_rot,             \* write_file_chunks: files (the rotation), as indexes
    l_chunk_nos,       \* write_file_chunks: chunk_nos
    l_i,               \* write_file_chunks: i
    l_taken,           \* data.position of every file
    l_emitted,         \* the calls of write_file_chunk made for every file
    l_chunk,           \* the chunk written last, until parse_files has read it
    l_from,            \* the file, the call and the data.position it came from
    l_parsed,          \* parse_files: files (name, data.size, chunk_nos)
    l_put,             \* parse_files: where the last payload was written
    l_warn,            \* console.warn messages, in order
    \* ---- area asset cache (get_area_render_data, get_area_collision_data)
    buffer_cache,      \* buffer_cache: the Map from URL to promise
    a_promises,        \* the promises fetch(url).then(...) made: URL and state
    a_fetches,         \* the URLs fetch was called with, in order
    a_handed,          \* for every URL, the promises the callers got
    a_last,            \* the last call: its arguments and what it returned
    a_calls            \* the calls made so far

scriptVars == <<operations, function_offsets, s_pc, s_i, position, func_found,
                func_ops, func_0_ops, episode, areas, s_warn, quest>>

datVars == <<d_table, d_bytes, d_pos, d_pc, d_err, d_objs, d_npcs, d_unknowns,
             d_warn, d_tampered>>

qstVars == <<q_files, q_pc, q_cursor, q_total_size, q_rot, q_chunk_nos, q_i,
             q_taken, q_scenario, q_written, q_pos, q_headers, q_parsed,
             q_warn, q_err, q_result>>

njVars == <<n_bytes, n_pc, n_stack, n_positions, n_normals, n_cached,
            n_vertices, n_warn, n_err, n_visits, n_models, n_earlier>>

longVars == <<l_sizes, l_pc, l_rot, l_chunk_nos, l_i, l_taken, l_emitted,
              l_chunk, l_from, l_parsed, l_put, l_warn>>

assetVars == <<buffer_cache, a_promises, a_fetches, a_handed, a_last, a_calls>>

vars == <<scriptVars, datVars, qstVars, njVars, longVars, assetVars>>

\* What the actions of one component leave alone.
notScript == <<datVars, qstVars, njVars, longVars, assetVars>>
notDat == <<scriptVars, qstVars, njVars, longVars, assetVars>>
notQst == <<scriptVars, datVars, njVars, longVars, assetVars>>
notNj == <<scriptVars, datVars, qstVars, longVars, assetVars>>
notLong == <<scriptVars, datVars, qstVars, njVars, assetVars>>
notAssets == <<scriptVars, datVars, qstVars, njVars, longVars>>

\* ------------------------------------------------------------------------
\* Generic helpers
\* ------------------------------------------------------------------------

Min(a, b) == IF a < b THEN a ELSE b

Max(a, b) == IF a > b THEN a ELSE b

Range(s) == {s[i] : i \in 1..Len(s)}

\* All sequences over S of length 0..n.
SeqsUpTo(S, n) == UNION {[1..k -> S] : k \in 0..n}

\* ------------------------------------------------------------------------
\* Binary cursor (little endian): reads at a byte offset of a buffer, and the
\* bytes a write appends.  A buffer is a sequence of bytes; offsets count
\* from 0.
\* ------------------------------------------------------------------------

u8(b, p) == b[p + 1]

u16(b, p) == b[p + 1] + 256 * b[p + 2]

u32(b, p) == b[p + 1] + 256 * b[p + 2] + 65536 * b[p + 3] + 16777216 * b[p + 4]

i32(b, p) ==
    b[p + 1] + 256 * b[p + 2] + 65536 * b[p + 3]
    + 16777216 * (IF b[p + 4] >= 128 THEN b[p + 4] - 256 ELSE b[p + 4])

i16(b, p) == b[p + 1] + 256 * (IF b[p + 2] >= 128 THEN b[p + 2] - 256 ELSE b[p + 2])

u8_array(b, p, n) == SubSeq(b, p + 1, p + n)

\* A 32-bit float is kept as its sign, biased exponent and mantissa; every
\* NaN reads as the one NaN value, which is written as 0x7FC00000.
NaN == [s |-> 0, e |-> 255, m |-> 4194304]

f32(b, p) ==
    LET s == b[p + 4] \div 128
        e == (b[p + 4] % 128) * 2 + b[p + 3] \div 128
        m == (b[p + 3] % 128) * 65536 + b[p + 2] * 256 + b[p + 1]
    IN  IF e = 255 /\ m # 0 THEN NaN ELSE [s |-> s, e |-> e, m |-> m]

write_u8(v) == <<v % 256>>

write_u16(v) == <<v % 256, (v \div 256) % 256>>

write_u32(v) ==
    <<v % 256, (v \div 256) % 256, (v \div 65536) % 256, (v \div 16777216) % 256>>

write_i32(v) == write_u32(v)

write_i16(v) == write_u16(v)

write_f32(x) ==
    <<x.m % 256, (x.m \div 256) % 256, (x.e % 2) * 128 + x.m \div 65536,
      x.s * 128 + x.e \div 2>>

Zeros(n) == [i \in 1..n |-> 0]

\* ------------------------------------------------------------------------
\* Idle values of the components a specification does not run
\* ------------------------------------------------------------------------

IdleScript ==
    /\ operations = <<>>
    /\ function_offsets = <<>>
    /\ s_pc = "idle"
    /\ s_i = 1
    /\ position = 0
    /\ func_found = FALSE
    /\ func_ops = <<>>
    /\ func_0_ops = [isnull |-> TRUE, ops |-> <<>>]
    /\ episode = 1
    /\ areas = <<>>
    /\ s_warn = <<>>
    /\ quest = [threw |-> FALSE, message |-> "none", episode |-> [t |-> "undefined"]]

IdleDat ==
    /\ d_table = [objs |-> <<>>, npcs |-> <<>>, unknowns |-> <<>>]
    /\ d_bytes = <<>>
    /\ d_pos = 0
    /\ d_pc = "idle"
    /\ d_err = ""
    /\ d_objs = <<>>
    /\ d_npcs = <<>>
    /\ d_unknowns = <<>>
    /\ d_warn = <<>>
    /\ d_tampered = FALSE

IdleQst ==
    /\ q_files = <<>>
    /\ q_pc = "idle"
    /\ q_cursor = <<>>
    /\ q_total_size = 0
    /\ q_rot = <<>>
    /\ q_chunk_nos = <<>>
    /\ q_i = 0
    /\ q_taken = <<>>
    /\ q_scenario = [kind |-> "none", file |-> <<>>, chunk_no |-> 0,
                     payload |-> <<>>, size |-> 0]
    /\ q_written = <<>>
    /\ q_pos = 0
    /\ q_headers = <<>>
    /\ q_parsed = <<>>
    /\ q_warn = <<>>
    /\ q_err = ""
    /\ q_result = [isnull |-> TRUE, version |-> "", files |-> <<>>]

IdleLong ==
    /\ l_sizes = <<>>
    /\ l_pc = "idle"
    /\ l_rot = <<>>
    /\ l_chunk_nos = <<>>
    /\ l_i = 0
    /\ l_taken = <<>>
    /\ l_emitted = <<>>
    /\ l_chunk = <<>>
    /\ l_from = [file |-> 0, call |-> 0, position |-> 0]
    /\ l_parsed = <<>>
    /\ l_put = [name |-> <<>>, position |-> 0, data |-> <<>>]
    /\ l_warn = <<>>

\* No call was made: the Map is empty.
IdleAssets ==
    /\ buffer_cache = <<>>
    /\ a_promises = <<>>
    /\ a_fetches = <<>>
    /\ a_handed = <<>>
    /\ a_last = [called |-> FALSE]
    /\ a_calls = 0

IdleNj ==
    /\ n_bytes = <<>>
    /\ n_pc = "idle"
    /\ n_stack = <<>>
    /\ n_positions = <<>>
    /\ n_normals = <<>>
    /\ n_cached = <<>>
    /\ n_vertices = <<>>
    /\ n_warn = <<>>
    /\ n_err = ""
    /\ n_visits = <<>>
    /\ n_models = <<>>
    /\ n_earlier = <<>>

\* ------------------------------------------------------------------------
\* Script episode/area scanner and quest assembler
\* ------------------------------------------------------------------------

MaxOps == 3
MaxOffset == 4

\* Decoded instructions, as the external disassembler supplies them.
OpRet == [mnemonic |-> "ret", opcode |-> 1, size |-> 1, args |-> <<>>]
OpNop == [mnemonic |-> "nop", opcode |-> 0, size |-> 1, args |-> <<>>]
OpSetEpisode(n) ==
    [mnemonic |-> "set_episode", opcode |-> 248, size |-> 2, args |-> <<n>>]
OpMapDesignate(area, variant) ==
    [mnemonic |-> "BB_Map_Designate", opcode |-> 249, size |-> 3,
     args |-> <<area, 0, variant>>]

OpKinds ==
    {OpRet, OpNop}
    \cup {OpSetEpisode(n) : n \in 0..3}
    \cup {OpMapDesignate(5, 0), OpMapDesignate(2, 0), OpMapDesignate(2, 1)}

\* JavaScript values that reach the Quest constructor.
Undefined == [t |-> "undefined"]
JSNumber(n) == [t |-> "number", v |-> n]
JSObject(r) == [t |-> "object", v |-> r]

\* The i-th actual argument of a call; missing arguments are undefined.
Arg(args, i) == IF i <= Len(args) THEN args[i] ELSE Undefined

Falsy(v) == v = Undefined

Null == [isnull |-> TRUE, ops |-> <<>>]
Some(ops) == [isnull |-> FALSE, ops |-> ops]

\* get_episode: the first set_episode of the slice decides.
FirstIndex(ops, P(_)) ==
    IF \E i \in 1..Len(ops) : P(ops[i])
    THEN CHOOSE i \in 1..Len(ops) : P(ops[i]) /\ \A j \in 1..(i - 1) : ~P(ops[j])
    ELSE 0

IsSetEpisode(op) == op.mnemonic = "set_episode"

get_episode(ops) ==
    LET i == FirstIndex(ops, IsSetEpisode)
    IN  IF i = 0
        THEN 1
        ELSE CASE ops[i].args[1] = 0 -> 1
               [] ops[i].args[1] = 1 -> 2
               [] ops[i].args[1] = 2 -> 4
               [] OTHER -> 1

get_episode_warns(ops) == FirstIndex(ops, IsSetEpisode) = 0

\* Immutable.js OrderedMap built from [key, value] pairs: a repeated key keeps
\* its first position and takes the later value.
RECURSIVE OrderedMapSet(_, _, _)
OrderedMapSet(m, k, v) ==
    IF m = <<>> THEN <<<<k, v>>>>
    ELSE IF Head(m)[1] = k THEN <<<<k, v>>>> \o Tail(m)
    ELSE <<Head(m)>> \o OrderedMapSet(Tail(m), k, v)

RECURSIVE OrderedMapOf(_)
OrderedMapOf(pairs) ==
    IF pairs = <<>> THEN <<>>
    ELSE LET n == Len(pairs)
         IN  OrderedMapSet(OrderedMapOf(SubSeq(pairs, 1, n - 1)),
                           pairs[n][1], pairs[n][2])

\* sortBy((_, id) => id): stable, ascending by key.
RECURSIVE InsertByKey(_, _)
InsertByKey(sorted, e) ==
    IF sorted = <<>> THEN <<e>>
    ELSE IF e[1] < Head(sorted)[1] THEN <<e>> \o sorted
    ELSE <<Head(sorted)>> \o InsertByKey(Tail(sorted), e)

RECURSIVE SortByKey(_)
SortByKey(m) ==
    IF m = <<>> THEN <<>>
    ELSE LET n == Len(m)
         IN  InsertByKey(SortByKey(SubSeq(m, 1, n - 1)), m[n])

IsMapDesignate(op) == op.mnemonic = "BB_Map_Designate"

bb_maps(ops) == SelectSeq(ops, IsMapDesignate)

get_areas_unsorted(ops) ==
    OrderedMapOf([i \in 1..Len(bb_maps(ops)) |->
                    <<bb_maps(ops)[i].args[1], bb_maps(ops)[i].args[3]>>])

get_areas(ops) ==
    SortByKey(OrderedMapOf([i \in 1..Len(bb_maps(ops)) |->
                              <<bb_maps(ops)[i].args[1], bb_maps(ops)[i].args[3]>>]))

\* Quest constructor (positional parameters): name, short_description,
\* long_description, episode, area_variants, objects, npcs.
QuestConstructor(args) ==
    LET ep == Arg(args, 4)
        objects == Arg(args, 6)
        npcs == Arg(args, 7)
    IN  IF ep # JSNumber(1) /\ ep # JSNumber(2) /\ ep # JSNumber(4)
        THEN [threw |-> TRUE, message |-> "episode should be 1, 2 or 4.",
              episode |-> ep]
        ELSE IF Falsy(objects)
        THEN [threw |-> TRUE, message |-> "objs is required.", episode |-> ep]
        ELSE IF Falsy(npcs)
        THEN [threw |-> TRUE, message |-> "npcs is required.", episode |-> ep]
        ELSE [threw |-> FALSE, message |-> "", episode |-> ep]

\* The argument list parse_quest passes to new Quest(...): one object literal.
QuestArgs(ep, ar) == <<JSObject([episode |-> ep, areas |-> ar])>>

InitScript ==
    /\ operations \in SeqsUpTo(OpKinds, MaxOps)
    /\ function_offsets \in {<<>>} \cup {<<o>> : o \in 0..MaxOffset}
    /\ s_pc = "start"
    /\ s_i = 1
    /\ position = 0
    /\ func_found = FALSE
    /\ func_ops = <<>>
    /\ func_0_ops = Null
    /\ episode = 1
    /\ areas = <<>>
    /\ s_warn = <<>>
    /\ quest = [threw |-> FALSE, message |-> "none", episode |-> Undefined]
    /\ IdleDat
    /\ IdleQst
    /\ IdleNj
    /\ IdleLong
    /\ IdleAssets

\* parse_quest up to the call of get_func_operations.
ParseQuestStart ==
    /\ s_pc = "start"
    /\ IF Len(function_offsets) > 0
       THEN /\ s_pc' = "scan"
            /\ s_warn' = s_warn
       ELSE /\ s_pc' = "assemble"
            /\ s_warn' = Append(s_warn, "File contains no functions.")
    /\ UNCHANGED <<operations, function_offsets, s_i, position, func_found,
                   func_ops, func_0_ops, episode, areas, quest>>
    /\ UNCHANGED notScript

\* A loop body that does not stop at the return instruction.
ScanStepBody_noBreak(found) ==
    LET operation == operations[s_i]
    IN  /\ func_found' = found
        /\ func_ops' = IF found THEN Append(func_ops, operation) ELSE func_ops
        /\ s_pc' = "scan"
        /\ position' = position + operation.size
        /\ s_i' = s_i + 1

\* One iteration of the for-loop of get_func_operations.
ScanStepBody(found) ==
    LET operation == operations[s_i]
    IN  /\ func_found' = found
        /\ IF found
           THEN /\ func_ops' = Append(func_ops, operation)
                /\ IF operation.opcode = 1
                   THEN /\ s_pc' = "scanned"
                        /\ position' = position
                   ELSE /\ s_pc' = "scan"
                        /\ position' = position + operation.size
           ELSE /\ func_ops' = func_ops
                /\ s_pc' = "scan"
                /\ position' = position + operation.size
        /\ s_i' = s_i + 1

ScanStep ==
    /\ s_pc = "scan"
    /\ s_i <= Len(operations)
    /\ ScanStepBody(func_found \/ position = function_offsets[1])
    /\ UNCHANGED <<operations, function_offsets, func_0_ops, episode, areas,
                   s_warn, quest>>
    /\ UNCHANGED notScript

\* The loop ran out of operations.
ScanEnd ==
    /\ s_pc = "scan"
    /\ s_i > Len(operations)
    /\ s_pc' = "scanned"
    /\ UNCHANGED <<operations, function_offsets, s_i, position, func_found,
                   func_ops, func_0_ops, episode, areas, s_warn, quest>>
    /\ UNCHANGED notScript

\* return func_found ? func_ops : null, and the caller's test of the result.
ScanReturn ==
    /\ s_pc = "scanned"
    /\ func_0_ops' = IF func_found THEN Some(func_ops) ELSE Null
    /\ IF func_found
       THEN /\ s_pc' = "episode"
            /\ s_warn' = s_warn
       ELSE /\ s_pc' = "assemble"
            /\ s_warn' = Append(s_warn, "Function 0 offset is invalid.")
    /\ UNCHANGED <<operations, function_offsets, s_i, position, func_found,
                   func_ops, episode, areas, quest>>
    /\ UNCHANGED notScript

GetEpisode ==
    /\ s_pc = "episode"
    /\ episode' = get_episode(func_0_ops.ops)
    /\ s_warn' = IF get_episode_warns(func_0_ops.ops)
                 THEN Append(s_warn, "Function 0 has no set_episode instruction.")
                 ELSE s_warn
    /\ s_pc' = "areas"
    /\ UNCHANGED <<operations, function_offsets, s_i, position, func_found,
                   func_ops, func_0_ops, areas, quest>>
    /\ UNCHANGED notScript

GetAreas ==
    /\ s_pc = "areas"
    /\ areas' = get_areas(func_0_ops.ops)
    /\ s_pc' = "assemble"
    /\ UNCHANGED <<operations, function_offsets, s_i, position, func_found,
                   func_ops, func_0_ops, episode, s_warn, quest>>
    /\ UNCHANGED notScript

NewQuest ==
    /\ s_pc = "assemble"
    /\ quest' = QuestConstructor(QuestArgs(episode, areas))
    /\ s_pc' = "done"
    /\ UNCHANGED <<operations, function_offsets, s_i, position, func_found,
                   func_ops, func_0_ops, episode, areas, s_warn>>
    /\ UNCHANGED notScript

NextScript ==
    \/ ParseQuestStart
    \/ ScanStep
    \/ ScanEnd
    \/ ScanReturn
    \/ GetEpisode
    \/ GetAreas
    \/ NewQuest

SpecScript == InitScript /\ [][NextScript]_vars

\* ---- properties of the script scanner

\* The byte offset at which operation i starts.
RECURSIVE StartOffset(_)
StartOffset(i) == IF i <= 1 THEN 0 ELSE StartOffset(i - 1) + operations[i - 1].size

\* The last operation of the function that starts at operation i.
SliceEnd(i) ==
    IF \E j \in i..Len(operations) : operations[j].opcode = 1
    THEN CHOOSE j \in i..Len(operations) :
            /\ operations[j].opcode = 1
            /\ \A k \in i..(j - 1) : operations[k].opcode # 1
    ELSE Len(operations)

ScanReturned ==
    /\ s_pc \in {"episode", "areas", "assemble", "done"}
    /\ Len(function_offsets) > 0

\* C10: get_func_operations returns the run of instructions from the one that
\* starts at the function-0 offset up to and including the first return
\* instruction (or the end of the stream), and null exactly when no
\* instruction starts at that offset.
C10_FuncSlice ==
    ScanReturned =>
        LET starts == {i \in 1..Len(operations) : StartOffset(i) = function_offsets[1]}
        IN  /\ func_0_ops.isnull <=> starts = {}
            /\ starts # {} =>
                   \E i \in starts :
                      func_0_ops.ops = SubSeq(operations, i, SliceEnd(i))

\* A slice that starts after the first instruction and stops at a return
\* instruction which is not the last of the stream.
C10_Witness ==
    /\ ScanReturned
    /\ ~func_0_ops.isnull
    /\ function_offsets[1] > 0
    /\ Len(func_0_ops.ops) = 1
    /\ func_0_ops.ops[1].opcode = 1
    /\ Len(operations) = 3
    /\ operations[2].opcode = 1

AreasComputed == s_pc \in {"assemble", "done"} /\ ~func_0_ops.isnull

\* C8: get_areas maps exactly the area ids of the BB_Map_Designate
\* instructions of the slice to their variant ids, iterates in ascending
\* area-id order, and keeps the later value of a repeated area id.
C8_AreaMapping ==
    AreasComputed =>
        LET maps == bb_maps(func_0_ops.ops)
        IN  /\ {areas[i][1] : i \in 1..Len(areas)}
                  = {maps[i].args[1] : i \in 1..Len(maps)}
            /\ \A i \in 1..(Len(areas) - 1) : areas[i][1] < areas[i + 1][1]
            /\ \A i \in 1..Len(areas) :
                   \E j \in 1..Len(maps) :
                      /\ maps[j].args[1] = areas[i][1]
                      /\ maps[j].args[3] = areas[i][2]
                      /\ \A k \in (j + 1)..Len(maps) : maps[k].args[1] # areas[i][1]

\* Designates for area 5, then area 2 twice with different variants.
C8_Witness ==
    /\ AreasComputed
    /\ func_0_ops.ops = <<OpMapDesignate(5, 0), OpMapDesignate(2, 0), OpMapDesignate(2, 1)>>
    /\ areas = <<<<2, 1>>, <<5, 0>>>>

\* get_episode alone: 0 -> 1, 1 -> 2, 2 -> 4, anything else or no
\* set_episode -> 1, decided by the first set_episode of the slice.
EpisodeMapping ==
    (s_pc \in {"areas", "assemble", "done"} /\ ~func_0_ops.isnull) =>
        LET i == FirstIndex(func_0_ops.ops, IsSetEpisode)
            a == func_0_ops.ops[i].args[1]
        IN  /\ episode \in {1, 2, 4}
            /\ i = 0 => episode = 1
            /\ i # 0 => episode = (IF a = 0 THEN 1 ELSE IF a = 1 THEN 2
                                   ELSE IF a = 2 THEN 4 ELSE 1)

\* C9: the episode is 1, 2 or 4, so every Quest that parse_quest produces has
\* an episode in {1, 2, 4} and the constructor's episode check never throws.
C9_EpisodeQuest ==
    /\ EpisodeMapping
    /\ s_pc = "done" =>
          /\ ~quest.threw
          /\ \/ quest.episode = JSNumber(1)
             \/ quest.episode = JSNumber(2)
             \/ quest.episode = JSNumber(4)

\* parse_quest went on without a function 0: the offset table is empty or
\* no instruction starts at the offset.
NoFunction0 == s_pc \in {"assemble", "done"} /\ func_0_ops.isnull

\* The defaults parse_quest hands to the constructor without a function 0.
DefaultsKept ==
    NoFunction0 =>
        /\ episode = 1
        /\ areas = <<>>
        /\ Len(s_warn) = 1
        /\ s_warn[1] \in {"File contains no functions.", "Function 0 offset is invalid."}

\* C18: when the function offset table is empty or the function-0 offset is
\* never reached, parse_quest does not fail: it warns and returns a Quest
\* with episode 1 and an empty area mapping.
C18_AssemblerDefaults ==
    /\ DefaultsKept
    /\ (NoFunction0 /\ s_pc = "done") =>
          /\ ~quest.threw
          /\ quest.episode = JSNumber(1)

\* ------------------------------------------------------------------------
\* Entity table codec
\* ------------------------------------------------------------------------

OBJECT_SIZE == 68
NPC_SIZE == 72

\* The records and opaque blocks of a table together.
MaxRecords == 3

\* An angle is counted in steps of 1/RotSub of the stored unit (a stored unit
\* is 2 * PI / 0xFFFF): the angle of a raw integer is a multiple of RotSub.
RotSub == 4

\* cursor.i32() / 0xFFFF * 2 * Math.PI
DecodeRotation(raw) == raw * RotSub

\* A writer that truncates instead of rounding.
EncodeRotation_floor(q) == q \div RotSub

\* Math.round(rotation / (2 * Math.PI) * 0xFFFF)
EncodeRotation(q) == (2 * q + RotSub) \div (2 * RotSub)

parse_obj(b, p, area_id) ==
    [type_id |-> u16(b, p),
     section_id |-> u16(b, p + 12),
     position |-> <<f32(b, p + 16), f32(b, p + 20), f32(b, p + 24)>>,
     rotation |-> <<DecodeRotation(i32(b, p + 28)), DecodeRotation(i32(b, p + 32)),
                    DecodeRotation(i32(b, p + 36))>>,
     area_id |-> area_id,
     unknown |-> <<u8_array(b, p + 2, 10), u8_array(b, p + 14, 2),
                   u8_array(b, p + 40, 28)>>]

parse_npc(b, p, area_id) ==
    [type_id |-> u16(b, p),
     section_id |-> u16(b, p + 12),
     position |-> <<f32(b, p + 20), f32(b, p + 24), f32(b, p + 28)>>,
     rotation |-> <<DecodeRotation(i32(b, p + 32)), DecodeRotation(i32(b, p + 36)),
                    DecodeRotation(i32(b, p + 40))>>,
     skin |-> u32(b, p + 64),
     area_id |-> area_id,
     unknown |-> <<u8_array(b, p + 2, 10), u8_array(b, p + 14, 6),
                   u8_array(b, p + 44, 20), u8_array(b, p + 68, 4)>>]

write_obj(obj) ==
    write_u16(obj.type_id) \o obj.unknown[1] \o write_u16(obj.section_id)
    \o obj.unknown[2]
    \o write_f32(obj.position[1]) \o write_f32(obj.position[2])
    \o write_f32(obj.position[3])
    \o write_i32(EncodeRotation(obj.rotation[1]))
    \o write_i32(EncodeRotation(obj.rotation[2]))
    \o write_i32(EncodeRotation(obj.rotation[3]))
    \o obj.unknown[3]

write_npc(npc) ==
    write_u16(npc.type_id) \o npc.unknown[1] \o write_u16(npc.section_id)
    \o npc.unknown[2]
    \o write_f32(npc.position[1]) \o write_f32(npc.position[2])
    \o write_f32(npc.position[3])
    \o write_i32(EncodeRotation(npc.rotation[1]))
    \o write_i32(EncodeRotation(npc.rotation[2]))
    \o write_i32(EncodeRotation(npc.rotation[3]))
    \o npc.unknown[3] \o write_u32(npc.skin) \o npc.unknown[4]

RECURSIVE Flatten(_)
Flatten(ss) == IF ss = <<>> THEN <<>> ELSE Head(ss) \o Flatten(Tail(ss))

\* Object.keys(grouped).map(key => parseInt(key, 10)).sort((a, b) => a - b)
RECURSIVE SortedSeq(_)
SortedSeq(S) ==
    IF S = {} THEN <<>>
    ELSE LET m == CHOOSE x \in S : \A y \in S : x <= y
         IN  <<m>> \o SortedSeq(S \ {m})

\* The area ids from the largest to the smallest.
area_ids_descending(recs) ==
    LET up == SortedSeq({recs[i].area_id : i \in 1..Len(recs)})
    IN  [i \in 1..Len(up) |-> up[Len(up) + 1 - i]]

area_ids(recs) == SortedSeq({recs[i].area_id : i \in 1..Len(recs)})

\* groupBy(recs, r => r.area_id)[area_id]
InArea(recs, area_id) ==
    LET Is(r) == r.area_id = area_id IN SelectSeq(recs, Is)

write_obj_block(objs, area_id) ==
    LET area_objs == InArea(objs, area_id)
        entities_size == Len(area_objs) * OBJECT_SIZE
    IN  write_u32(1) \o write_u32(entities_size + 16) \o write_u32(area_id)
        \o write_u32(entities_size)
        \o Flatten([i \in 1..Len(area_objs) |-> write_obj(area_objs[i])])

write_npc_block(npcs, area_id) ==
    LET area_npcs == InArea(npcs, area_id)
        entities_size == Len(area_npcs) * NPC_SIZE
    IN  write_u32(2) \o write_u32(entities_size + 16) \o write_u32(area_id)
        \o write_u32(entities_size)
        \o Flatten([i \in 1..Len(area_npcs) |-> write_npc(area_npcs[i])])

\* A writer that gives every opaque block the type of the first kind.
write_unknown_block_retyped(unknown) ==
    write_u32(3) \o write_u32(unknown.total_size)
    \o write_u32(unknown.area_id) \o write_u32(unknown.entities_size)
    \o unknown.data

write_unknown_block(unknown) ==
    write_u32(unknown.entity_type) \o write_u32(unknown.total_size)
    \o write_u32(unknown.area_id) \o write_u32(unknown.entities_size)
    \o unknown.data

write_dat(t) ==
    Flatten([i \in 1..Len(area_ids(t.objs)) |->
                write_obj_block(t.objs, area_ids(t.objs)[i])])
    \o Flatten([i \in 1..Len(area_ids(t.npcs)) |->
                write_npc_block(t.npcs, area_ids(t.npcs)[i])])
    \o Flatten([i \in 1..Len(t.unknowns) |-> write_unknown_block(t.unknowns[i])])
    \o write_u32(0) \o write_u32(0) \o write_u32(0) \o write_u32(0)

\* ---- the records the model writes

Fill(n, seed) == [i \in 1..n |-> (seed + i) % 128]

F32One == [s |-> 0, e |-> 127, m |-> 0]
F32Zero == [s |-> 0, e |-> 0, m |-> 0]
F32MinusTwoAndHalf == [s |-> 1, e |-> 128, m |-> 2097152]

ObjChoices ==
    {[type_id |-> 2, section_id |-> 1, position |-> <<F32One, F32Zero, F32MinusTwoAndHalf>>,
      rotation |-> <<0, 5, -6>>, area_id |-> 2,
      unknown |-> <<Fill(10, 1), Fill(2, 20), Fill(28, 30)>>],
     [type_id |-> 300, section_id |-> 17, position |-> <<F32Zero, NaN, F32One>>,
      rotation |-> <<7, -4, 65535 * RotSub>>, area_id |-> 0,
      unknown |-> <<Fill(10, 40), Fill(2, 50), Fill(28, 60)>>],
     [type_id |-> 2, section_id |-> 1, position |-> <<F32One, F32One, F32One>>,
      rotation |-> <<-3, 0, 2>>, area_id |-> 0,
      unknown |-> <<Fill(10, 70), Fill(2, 80), Fill(28, 90)>>]}

NpcChoices ==
    {[type_id |-> 65, section_id |-> 3, position |-> <<F32MinusTwoAndHalf, F32Zero, F32One>>,
      rotation |-> <<0, -9, 7>>, skin |-> 1, area_id |-> 1,
      unknown |-> <<Fill(10, 2), Fill(6, 21), Fill(20, 31), Fill(4, 41)>>],
     [type_id |-> 4, section_id |-> 0, position |-> <<F32One, F32One, NaN>>,
      rotation |-> <<16384 * RotSub, 1, -1>>, skin |-> 0, area_id |-> 0,
      unknown |-> <<Fill(10, 3), Fill(6, 22), Fill(20, 32), Fill(4, 42)>>]}

UnknownChoices ==
    {[entity_type |-> 3, total_size |-> 20, area_id |-> 1, entities_size |-> 4,
      data |-> <<9, 8, 7, 6>>],
     [entity_type |-> 5, total_size |-> 16, area_id |-> 0, entities_size |-> 0,
      data |-> <<>>]}

Tables ==
    {t \in [objs : SeqsUpTo(ObjChoices, MaxRecords),
            npcs : SeqsUpTo(NpcChoices, MaxRecords),
            unknowns : SeqsUpTo(UnknownChoices, MaxRecords)] :
        Len(t.objs) + Len(t.npcs) + Len(t.unknowns) <= MaxRecords}

\* The offsets of the block headers of a well-formed table, the terminator's
\* included.
RECURSIVE BlockStarts(_, _)
BlockStarts(b, p) ==
    IF p + 16 > Len(b) THEN {}
    ELSE IF u32(b, p) = 0 THEN {p}
    ELSE {p} \cup BlockStarts(b, p + 16 + u32(b, p + 12))

\* What is added to (total_size, entities_size) of an overwritten header.
TamperDeltas == {<<4, 0>>, <<0, 4>>, <<4, 4>>, <<-4, -4>>, <<16, 16>>}

Overwrite(b, p, bytes) ==
    [i \in 1..Len(b) |-> IF i > p /\ i <= p + Len(bytes) THEN bytes[i - p] ELSE b[i]]

\* ---- operations

InitDat ==
    /\ d_table \in Tables
    /\ d_bytes = <<>>
    /\ d_pos = 0
    /\ d_pc = "input"
    /\ d_err = ""
    /\ d_objs = <<>>
    /\ d_npcs = <<>>
    /\ d_unknowns = <<>>
    /\ d_warn = <<>>
    /\ d_tampered = FALSE
    /\ IdleScript
    /\ IdleQst
    /\ IdleNj
    /\ IdleLong
    /\ IdleAssets

\* write_dat, which returns the cursor rewound to 0.
WriteDat ==
    /\ d_pc = "input"
    /\ d_bytes' = write_dat(d_table)
    /\ d_pos' = 0
    /\ d_pc' = "parse"
    /\ UNCHANGED <<d_table, d_err, d_objs, d_npcs, d_unknowns, d_warn, d_tampered>>
    /\ UNCHANGED notDat

\* A crafted file: one block header of a written table gets other sizes.
TamperHeader ==
    /\ d_pc = "parse"
    /\ d_pos = 0
    /\ ~d_tampered
    /\ \E p \in BlockStarts(d_bytes, 0), delta \in TamperDeltas :
          /\ u32(d_bytes, p + 4) + delta[1] >= 0
          /\ u32(d_bytes, p + 12) + delta[2] >= 0
          /\ d_bytes' = Overwrite(Overwrite(d_bytes, p + 4,
                                            write_u32(u32(d_bytes, p + 4) + delta[1])),
                                  p + 12, write_u32(u32(d_bytes, p + 12) + delta[2]))
    /\ d_tampered' = TRUE
    /\ UNCHANGED <<d_table, d_pos, d_pc, d_err, d_objs, d_npcs, d_unknowns, d_warn>>
    /\ UNCHANGED notDat

\* What the data of a block grows by.
Pads == {4, -4}

\* A crafted file: the data of one block of a written table is 4 bytes longer
\* (bytes that belong to no record) or 4 bytes shorter, and both sizes of
\* its header say so.
PadBlock ==
    /\ d_pc = "parse"
    /\ d_pos = 0
    /\ ~d_tampered
    /\ \E p \in BlockStarts(d_bytes, 0), pad \in Pads :
          LET total_size == u32(d_bytes, p + 4)
              entities_size == u32(d_bytes, p + 12)
              end == p + 16 + entities_size
          IN  /\ u32(d_bytes, p) # 0
              /\ entities_size + pad >= 0
              /\ d_bytes' =
                    SubSeq(d_bytes, 1, p + 4) \o write_u32(total_size + pad)
                    \o SubSeq(d_bytes, p + 9, p + 12)
                    \o write_u32(entities_size + pad)
                    \o (IF pad >= 0
                        THEN SubSeq(d_bytes, p + 17, end) \o Fill(pad, 99)
                        ELSE SubSeq(d_bytes, p + 17, end + pad))
                    \o SubSeq(d_bytes, end + 1, Len(d_bytes))
    /\ d_tampered' = TRUE
    /\ UNCHANGED <<d_table, d_pos, d_pc, d_err, d_objs, d_npcs, d_unknowns, d_warn>>
    /\ UNCHANGED notDat

DatThrow(message, pos) ==
    /\ d_pc' = "error"
    /\ d_err' = message
    /\ d_pos' = pos
    /\ UNCHANGED <<d_objs, d_npcs, d_unknowns, d_warn>>

\* A check that only rejects sizes that are too large.
SizeMismatch_lax(total_size, entities_size) == entities_size > total_size - 16

SizeMismatch(total_size, entities_size) == entities_size # total_size - 16

resynchronized_not(pos, bytes_read, entities_size) == pos

\* The position after a run that read bytes_read bytes and ended at pos:
\* cursor.seek(entities_size - bytes_read) if the two differ.
resynchronized(pos, bytes_read, entities_size) ==
    IF bytes_read # entities_size
    THEN pos + (entities_size - bytes_read)
    ELSE pos

\* A run of fixed-size records of one block, and the resynchronisation.
ParseRun(entity_type, area_id, entities_size, start) ==
    LET size == IF entity_type = 1 THEN OBJECT_SIZE ELSE NPC_SIZE
        count == entities_size \div size
        bytes_read == count * size
        recs == [i \in 1..count |->
                    IF entity_type = 1
                    THEN parse_obj(d_bytes, start + (i - 1) * size, area_id)
                    ELSE parse_npc(d_bytes, start + (i - 1) * size, area_id)]
    IN  IF start + bytes_read > Len(d_bytes)
        THEN DatThrow("out of bounds", start)
        ELSE IF start + entities_size > Len(d_bytes)
        THEN DatThrow("out of bounds", start + bytes_read)
        ELSE /\ d_objs' = IF entity_type = 1 THEN d_objs \o recs ELSE d_objs
             /\ d_npcs' = IF entity_type = 2 THEN d_npcs \o recs ELSE d_npcs
             /\ d_warn' = IF bytes_read # entities_size
                          THEN Append(d_warn, <<"Read bytes instead of expected",
                                                bytes_read, entities_size, entity_type>>)
                          ELSE d_warn
             /\ d_pos' = resynchronized(start + bytes_read, bytes_read, entities_size)
             /\ UNCHANGED <<d_pc, d_err, d_unknowns>>

\* One iteration of the while-loop of parse_dat: one block.
ParseDatBlock ==
    /\ d_pc = "parse"
    /\ d_pos < Len(d_bytes)
    /\ IF d_pos + 16 > Len(d_bytes)
       THEN DatThrow("out of bounds", d_pos)
       ELSE LET entity_type == u32(d_bytes, d_pos)
                total_size == u32(d_bytes, d_pos + 4)
                area_id == u32(d_bytes, d_pos + 8)
                entities_size == u32(d_bytes, d_pos + 12)
                start == d_pos + 16
            IN  IF entity_type = 0
                THEN /\ d_pc' = "done"
                     /\ d_pos' = start
                     /\ UNCHANGED <<d_err, d_objs, d_npcs, d_unknowns, d_warn>>
                ELSE IF SizeMismatch(total_size, entities_size)
                THEN DatThrow("Malformed DAT file", start)
                ELSE IF entity_type \in {1, 2}
                THEN ParseRun(entity_type, area_id, entities_size, start)
                ELSE IF start + entities_size > Len(d_bytes)
                THEN DatThrow("out of bounds", start)
                ELSE /\ d_unknowns' = Append(d_unknowns,
                            [entity_type |-> entity_type, total_size |-> total_size,
                             area_id |-> area_id, entities_size |-> entities_size,
                             data |-> u8_array(d_bytes, start, entities_size)])
                     /\ d_pos' = start + entities_size
                     /\ UNCHANGED <<d_pc, d_err, d_objs, d_npcs, d_warn>>
    /\ UNCHANGED <<d_table, d_bytes, d_tampered>>
    /\ UNCHANGED notDat

\* The buffer ends without a terminator block: the loop ends.
ParseDatEnd ==
    /\ d_pc = "parse"
    /\ d_pos >= Len(d_bytes)
    /\ d_pc' = "done"
    /\ UNCHANGED <<d_table, d_bytes, d_pos, d_err, d_objs, d_npcs, d_unknowns,
                   d_warn, d_tampered>>
    /\ UNCHANGED notDat

NextDat ==
    \/ WriteDat
    \/ TamperHeader
    \/ PadBlock
    \/ ParseDatBlock
    \/ ParseDatEnd

SpecDat == InitDat /\ [][NextDat]_vars

\* ---- properties of the entity table codec

Abs(n) == IF n < 0 THEN -n ELSE n

\* Record out is record in with every rotation quantized: nothing else differs,
\* and each angle is off by at most half a stored unit.
SameUpToQuantization(out, in) ==
    /\ [out EXCEPT !.rotation = in.rotation] = in
    /\ \A k \in 1..3 :
          /\ out.rotation[k] % RotSub = 0
          /\ 2 * Abs(out.rotation[k] - in.rotation[k]) <= RotSub

\* The records of out are those of in, one for one.
SameRecords(out, in) ==
    /\ Len(out) = Len(in)
    /\ Len(in) > 0 =>
          \E f \in Permutations(1..Len(in)) :
             \A i \in 1..Len(in) : SameUpToQuantization(out[f[i]], in[i])

RoundTripDone == d_pc = "done" /\ ~d_tampered

\* C2: parse_dat(write_dat(records)) returns the original object and NPC
\* records, none lost, duplicated or altered, each rotation off by at most
\* the quantization error; writing the parsed records again gives the same
\* bytes, so a raw rotation integer survives decoding and encoding.
C2_DatRoundTrip ==
    RoundTripDone =>
        /\ SameRecords(d_objs, d_table.objs)
        /\ SameRecords(d_npcs, d_table.npcs)
        /\ d_err = ""
        /\ write_dat([objs |-> d_objs, npcs |-> d_npcs, unknowns |-> d_unknowns])
              = d_bytes

\* Two objects given in descending area order, one NPC, and a rotation that
\* the round trip quantized.
C2_Witness ==
    /\ RoundTripDone
    /\ Len(d_objs) = 2
    /\ d_table.objs[1].area_id > d_table.objs[2].area_id
    /\ Len(d_npcs) = 1
    /\ d_objs[2].rotation # d_table.objs[1].rotation

\* C5: whenever parse_dat reads a block header with entity_type # 0 and
\* entities_size # total_size - 16, it throws the malformed-file error and
\* adds nothing to its result, whatever the entity type and whatever it has
\* parsed before.
C5_SizeEnforced ==
    [][(/\ d_pc = "parse"
        /\ d_pos + 16 <= Len(d_bytes)
        /\ u32(d_bytes, d_pos) # 0
        /\ u32(d_bytes, d_pos + 12) # u32(d_bytes, d_pos + 4) - 16)
       => (/\ d_pc' = "error"
           /\ d_err' = "Malformed DAT file"
           /\ <<d_objs, d_npcs, d_unknowns>>' = <<d_objs, d_npcs, d_unknowns>>)]_vars

\* An opaque block with inconsistent sizes rejected after an object block
\* was parsed.
C5_Witness ==
    /\ d_pc = "error"
    /\ d_err = "Malformed DAT file"
    /\ Len(d_objs) > 0
    /\ u32(d_bytes, d_pos - 16) \notin {0, 1, 2}
    /\ u32(d_bytes, d_pos - 4) < u32(d_bytes, d_pos - 12) - 16

\* The record size of the runs of an entity type.
RecordSize(entity_type) == IF entity_type = 1 THEN OBJECT_SIZE ELSE NPC_SIZE

\* C14: when parse_dat has processed an object or NPC block, the cursor is
\* at the block's data start + entities_size, also when entities_size is
\* not a multiple of the record size; then floor(entities_size / record
\* size) records are produced, a warning is logged, no error is raised, and
\* the next header is read from there.
C14_Resynchronization ==
    [][(/\ ParseDatBlock
        /\ d_pos + 16 <= Len(d_bytes)
        /\ u32(d_bytes, d_pos) \in {1, 2}
        /\ u32(d_bytes, d_pos + 12) = u32(d_bytes, d_pos + 4) - 16
        /\ d_pos + 16 + u32(d_bytes, d_pos + 12) <= Len(d_bytes))
       => LET entity_type == u32(d_bytes, d_pos)
              entities_size == u32(d_bytes, d_pos + 12)
              count == entities_size \div RecordSize(entity_type)
          IN  /\ d_pos' = d_pos + 16 + entities_size
              /\ d_pc' = "parse"
              /\ d_err' = ""
              /\ Len(d_objs') = Len(d_objs) + (IF entity_type = 1 THEN count ELSE 0)
              /\ Len(d_npcs') = Len(d_npcs) + (IF entity_type = 2 THEN count ELSE 0)
              /\ d_unknowns' = d_unknowns
              /\ IF entities_size % RecordSize(entity_type) # 0
                 THEN Len(d_warn') = Len(d_warn) + 1
                 ELSE d_warn' = d_warn]_vars

\* An object block that is 4 bytes longer than its records was parsed with a
\* warning, and the NPC block and the terminator after it were found.
C14_Witness ==
    /\ d_pc = "done"
    /\ d_tampered
    /\ d_err = ""
    /\ Len(d_warn) = 1
    /\ d_warn[1][4] = 1
    /\ d_warn[1][3] = d_warn[1][2] + 4
    /\ SameRecords(d_objs, d_table.objs)
    /\ Len(d_npcs) > 0
    /\ SameRecords(d_npcs, d_table.npcs)
    /\ d_pos = Len(d_bytes)

\* C15: parse_dat stores, for every block of a type other than 0, 1 and 2,
\* entities_size data bytes with the block's entity_type, total_size,
\* area_id and entities_size, and write_dat writes that header and those
\* bytes again: parse_dat(write_dat(t)).unknowns = t.unknowns, in the same
\* order.
C15_OpaqueFidelity ==
    /\ \A i \in 1..Len(d_unknowns) :
          /\ Len(d_unknowns[i].data) = d_unknowns[i].entities_size
          /\ d_unknowns[i].entities_size = d_unknowns[i].total_size - 16
          /\ d_unknowns[i].entity_type \notin {0, 1, 2}
    /\ RoundTripDone => d_unknowns = d_table.unknowns

\* Two opaque blocks of different types came back after an object block.
C15_Witness ==
    /\ RoundTripDone
    /\ Len(d_unknowns) = 2
    /\ d_unknowns[1].entity_type # d_unknowns[2].entity_type
    /\ d_unknowns[1].data # d_unknowns[2].data
    /\ Len(d_objs) = 1

\* The blocks of a table from offset p on, as their headers delimit them,
\* up to the first header of type 0.
RECURSIVE BlocksFrom(_, _)
BlocksFrom(b, p) ==
    IF p + 16 > Len(b) \/ u32(b, p) = 0 THEN <<>>
    ELSE <<[entity_type |-> u32(b, p), total_size |-> u32(b, p + 4),
            area_id |-> u32(b, p + 8), entities_size |-> u32(b, p + 12),
            start |-> p + 16]>>
         \o BlocksFrom(b, p + 16 + u32(b, p + 12))

\* The blocks of one entity type, in the order they are written in.
BlocksOfType(b, entity_type) ==
    LET Is(block) == block.entity_type = entity_type
    IN  SelectSeq(BlocksFrom(b, 0), Is)

\* The end of the last block: where the terminator is.
BlocksEnd(b) ==
    LET blocks == BlocksFrom(b, 0)
    IN  IF blocks = <<>> THEN 0
        ELSE blocks[Len(blocks)].start + blocks[Len(blocks)].entities_size

\* One block per area id of recs, in ascending order of the area ids, each
\* with the records of its area in the order of recs.
LaidOut(b, entity_type, recs) ==
    LET blocks == BlocksOfType(b, entity_type)
        size == RecordSize(entity_type)
    IN  /\ {blocks[k].area_id : k \in 1..Len(blocks)}
              = {recs[i].area_id : i \in 1..Len(recs)}
        /\ \A k \in 1..(Len(blocks) - 1) : blocks[k].area_id < blocks[k + 1].area_id
        /\ \A k \in 1..Len(blocks) :
              LET area_recs == InArea(recs, blocks[k].area_id)
              IN  /\ blocks[k].entities_size = Len(area_recs) * size
                  /\ blocks[k].total_size = blocks[k].entities_size + 16
                  /\ \A i \in 1..Len(area_recs) :
                        SameUpToQuantization(
                            IF entity_type = 1
                            THEN parse_obj(b, blocks[k].start + (i - 1) * size,
                                           blocks[k].area_id)
                            ELSE parse_npc(b, blocks[k].start + (i - 1) * size,
                                           blocks[k].area_id),
                            area_recs[i])

Written == d_pc = "parse" /\ d_pos = 0 /\ ~d_tampered

\* C16: write_dat writes one block per distinct area id of the objects and
\* one per distinct area id of the NPCs, in ascending order of the area ids
\* within each kind, with entities_size = record count * record size and
\* total_size = entities_size + 16, the records of an area in their input
\* order; the last 16 bytes are an all-zero terminator block and no header
\* of type 0 comes before it.
C16_BlockLayout ==
    Written =>
        /\ LaidOut(d_bytes, 1, d_table.objs)
        /\ LaidOut(d_bytes, 2, d_table.npcs)
        /\ BlocksEnd(d_bytes) = Len(d_bytes) - 16
        /\ SubSeq(d_bytes, Len(d_bytes) - 15, Len(d_bytes)) = Zeros(16)

\* Objects of two areas, given with the larger area first and the two of area
\* 0 apart from each other.
C16_Witness ==
    /\ Written
    /\ Len(d_table.objs) = 3
    /\ d_table.objs[1].area_id = 0
    /\ d_table.objs[2].area_id = 2
    /\ d_table.objs[3].area_id = 0
    /\ d_table.objs[1] # d_table.objs[3]
    /\ Len(BlocksOfType(d_bytes, 1)) = 2

\* ------------------------------------------------------------------------
\* Container codec (write_qst, parse_qst)
\* ------------------------------------------------------------------------

HEADER_SIZE == 88
CHUNK_SIZE == 1056
SEGMENT_SIZE == 1024

\* The chunks of the two files together.
MaxStreamChunks == 4

\* Strings are sequences of character codes.
\* cursor.write_string_ascii(str, byte_length): the characters, cut or padded
\* with zero bytes to byte_length.
write_string_ascii(str, byte_length) ==
    [i \in 1..byte_length |-> IF i <= Len(str) THEN str[i] % 256 ELSE 0]

\* cursor.string_ascii(max_byte_length, true, true): the characters before
\* the first zero byte; the cursor moves on by max_byte_length.
RECURSIVE string_ascii(_, _, _)
string_ascii(b, p, max_byte_length) ==
    IF max_byte_length = 0 \/ b[p + 1] = 0 THEN <<>>
    ELSE <<b[p + 1]>> \o string_ascii(b, p + 1, max_byte_length - 1)

\* str.lastIndexOf(ch), counting from 0; -1 if there is none.
lastIndexOf(str, ch) ==
    IF \E i \in 1..Len(str) : str[i] = ch
    THEN (CHOOSE i \in 1..Len(str) :
             str[i] = ch /\ \A j \in (i + 1)..Len(str) : str[j] # ch) - 1
    ELSE -1

\* An optional value: <<>> is null, <<v>> is v.
OrElse(opt, default) == IF opt = <<>> THEN default ELSE opt[1]

Ceil(a, b) == (a + b - 1) \div b

\* write_file_headers: the name written second, '.' is 46, '_j' is 95, 106.
file_name_2(file) ==
    IF file.name_2 = <<>>
    THEN LET dot_pos == lastIndexOf(file.name, 46)
         IN  IF dot_pos = -1
             THEN file.name \o <<95, 106>>
             ELSE SubSeq(file.name, 1, dot_pos) \o <<95, 106>>
                  \o SubSeq(file.name, dot_pos + 1, Len(file.name))
    ELSE file.name_2[1]

write_file_header(file) ==
    write_u16(HEADER_SIZE) \o write_u16(68) \o write_u16(OrElse(file.quest_no, 0))
    \o Zeros(38)
    \o write_string_ascii(file.name, 16)
    \o write_u32(Len(file.data))
    \o write_string_ascii(file_name_2(file), 24)

write_file_headers(files) ==
    Flatten([i \in 1..Len(files) |-> write_file_header(files[i])])

\* write_qst: total_size
total_size(files) ==
    LET term(i) == HEADER_SIZE + Ceil(Len(files[i].data), SEGMENT_SIZE) * CHUNK_SIZE
        RECURSIVE sum(_)
        sum(n) == IF n = 0 THEN 0 ELSE sum(n - 1) + term(n)
    IN  sum(Len(files))

\* write_file_chunk: the bytes written, the position data is left at, and the
\* value returned.
write_file_chunk(data, taken, chunk_no, name) ==
    LET size == Min(SEGMENT_SIZE, Len(data) - taken)
    IN  [bytes |-> <<28, 4, 19, 0>> \o write_u8(chunk_no) \o <<0, 0, 0>>
                   \o write_string_ascii(name, 16)
                   \o SubSeq(data, taken + 1, taken + size)
                   \o Zeros(SEGMENT_SIZE - size)
                   \o write_u32(size) \o write_u32(0),
         taken |-> taken + size,
         more |-> Len(data) - (taken + size) # 0]

\* array.splice(i, 1), i counting from 0.
Splice(s, i) == SubSeq(s, 1, i) \o SubSeq(s, i + 2, Len(s))

\* ---- the files the model writes

Pattern(size, seed) == [i \in 1..size |-> (seed + 7 * (i - 1)) % 251]

NumChunks(size) == Ceil(size, SEGMENT_SIZE)

\* Sizes that end on a chunk boundary and sizes that do not, 0 included.
FileSizes ==
    {0} \cup {c * SEGMENT_SIZE : c \in 1..(MaxStreamChunks - 1)}
        \cup {(c - 1) * SEGMENT_SIZE + 1 : c \in 1..(MaxStreamChunks - 1)}

\* "q.dat" and "q.bin"
DatName == <<113, 46, 100, 97, 116>>
BinName == <<113, 46, 98, 105, 110>>

QstInputs ==
    {<<[name |-> DatName, name_2 |-> <<>>, quest_no |-> <<>>,
        data |-> Pattern(a, 1)],
       [name |-> BinName, name_2 |-> <<BinName>>, quest_no |-> <<58>>,
        data |-> Pattern(b, 2)]>> :
        <<a, b>> \in {p \in FileSizes \X FileSizes :
                        NumChunks(p[1]) + NumChunks(p[2]) <= MaxStreamChunks}}

InitQst ==
    /\ q_files \in QstInputs
    /\ q_pc = "input"
    /\ q_cursor = <<>>
    /\ q_total_size = 0
    /\ q_rot = <<>>
    /\ q_chunk_nos = <<>>
    /\ q_i = 0
    /\ q_taken = <<0, 0>>
    /\ q_scenario = [kind |-> "none", file |-> <<>>, chunk_no |-> 0,
                     payload |-> <<>>, size |-> 0]
    /\ q_written = <<>>
    /\ q_pos = 0
    /\ q_headers = <<>>
    /\ q_parsed = <<>>
    /\ q_warn = <<>>
    /\ q_err = ""
    /\ q_result = [isnull |-> TRUE, version |-> "", files |-> <<>>]
    /\ IdleScript
    /\ IdleDat
    /\ IdleNj
    /\ IdleLong
    /\ IdleAssets

\* ---- write_qst

\* write_qst up to the first chunk: total_size, the cursor (empty, it grows
\* as it is written), the headers, and the rotation of write_file_chunks.
WriteQstStart ==
    /\ q_pc = "input"
    /\ q_total_size' = total_size(q_files)
    /\ q_cursor' = write_file_headers(q_files)
    /\ q_rot' = [i \in 1..Len(q_files) |-> i]
    /\ q_chunk_nos' = [i \in 1..Len(q_files) |-> 0]
    /\ q_i' = 0
    /\ q_pc' = "chunks"
    /\ UNCHANGED <<q_files, q_taken, q_scenario, q_written, q_pos, q_headers,
                   q_parsed, q_warn, q_err, q_result>>
    /\ UNCHANGED notQst

round_index_stay(i, n) == IF i < n THEN i ELSE n - 1

\* The index the next turn works at: the inner loop goes on while i is less
\* than the n files of the rotation, and the outer loop starts a round at 0.
round_index(i, n) == IF i < n THEN i ELSE 0

\* One turn of the inner loop of write_file_chunks; the outer loop starts the
\* next round at i = 0.
WriteFileChunk ==
    /\ q_pc = "chunks"
    /\ q_rot # <<>>
    /\ LET i == round_index(q_i, Len(q_rot))
           f == q_rot[i + 1]
       IN  \E r \in {write_file_chunk(q_files[f].data, q_taken[f], q_chunk_nos[i + 1],
                                      q_files[f].name)} :
           /\ q_cursor' = q_cursor \o r.bytes
           /\ q_taken' = [q_taken EXCEPT ![f] = r.taken]
           /\ IF r.more
              THEN /\ q_rot' = q_rot
                   /\ q_chunk_nos' = [q_chunk_nos EXCEPT ![i + 1] = @ + 1]
                   /\ q_i' = i + 1
              ELSE /\ q_rot' = Splice(q_rot, i)
                   /\ q_chunk_nos' = Splice(q_chunk_nos, i)
                   /\ q_i' = i
    /\ UNCHANGED <<q_files, q_pc, q_total_size, q_scenario, q_written, q_pos,
                   q_headers, q_parsed, q_warn, q_err, q_result>>
    /\ UNCHANGED notQst

\* write_qst after write_file_chunks: the final size check.
WriteQstEnd ==
    /\ q_pc = "chunks"
    /\ q_rot = <<>>
    /\ IF Len(q_cursor) # q_total_size
       THEN /\ q_pc' = "error"
            /\ q_err' = "Expected a final file size"
            /\ q_written' = q_written
       ELSE /\ q_pc' = "written"
            /\ q_err' = q_err
            /\ q_written' = q_cursor
    /\ UNCHANGED <<q_files, q_cursor, q_total_size, q_rot, q_chunk_nos, q_i,
                   q_taken, q_scenario, q_pos, q_headers, q_parsed, q_warn,
                   q_result>>
    /\ UNCHANGED notQst

\* ---- what may happen to the chunk stream between writing and parsing

StreamStart == 2 * HEADER_SIZE

StreamChunks(b) == (Len(b) - StreamStart) \div CHUNK_SIZE

ChunkAt(b, k) ==
    SubSeq(b, StreamStart + (k - 1) * CHUNK_SIZE + 1, StreamStart + k * CHUNK_SIZE)

\* The chunks are put in another order.
ReorderChunks ==
    /\ q_pc = "written"
    /\ q_scenario.kind = "none"
    /\ \E f \in Permutations(1..StreamChunks(q_cursor)) :
          /\ f # [k \in 1..StreamChunks(q_cursor) |-> k]
          /\ q_cursor' = SubSeq(q_cursor, 1, StreamStart)
                \o Flatten([k \in 1..StreamChunks(q_cursor) |-> ChunkAt(q_cursor, f[k])])
    /\ q_scenario' = [q_scenario EXCEPT !.kind = "reordered"]
    /\ UNCHANGED <<q_files, q_pc, q_total_size, q_rot, q_chunk_nos, q_i,
                   q_taken, q_written, q_pos, q_headers, q_parsed, q_warn,
                   q_err, q_result>>
    /\ UNCHANGED notQst

\* One chunk is lost.
DropChunk ==
    /\ q_pc = "written"
    /\ q_scenario.kind = "none"
    /\ \E k \in 1..StreamChunks(q_cursor) :
          /\ q_cursor' = SubSeq(q_cursor, 1, StreamStart + (k - 1) * CHUNK_SIZE)
                \o SubSeq(q_cursor, StreamStart + k * CHUNK_SIZE + 1, Len(q_cursor))
          /\ q_scenario' = [kind |-> "dropped",
                            file |-> string_ascii(ChunkAt(q_cursor, k), 8, 16),
                            chunk_no |-> u8(ChunkAt(q_cursor, k), 4),
                            payload |-> <<>>, size |-> 0]
    /\ UNCHANGED <<q_files, q_pc, q_total_size, q_rot, q_chunk_nos, q_i,
                   q_taken, q_written, q_pos, q_headers, q_parsed, q_warn,
                   q_err, q_result>>
    /\ UNCHANGED notQst

\* A chunk of the stream with another payload of n valid bytes.
Rewritten(chunk, payload) ==
    SubSeq(chunk, 1, 24) \o payload \o Zeros(SEGMENT_SIZE - Len(payload))
        \o write_u32(Len(payload)) \o write_u32(0)

\* The valid bytes a second copy of a chunk may declare: as many as the
\* first, or fewer.
FewerOrSame(size) == {size, size \div 2}

\* A chunk comes a second time, with the same file name and chunk number and
\* another payload, right after the first or at the end of the stream.
DuplicateChunk ==
    /\ q_pc = "written"
    /\ q_scenario.kind = "none"
    /\ \E k \in 1..StreamChunks(q_cursor) :
       \E at \in {k, StreamChunks(q_cursor)} :
       \E n \in FewerOrSame(u32(ChunkAt(q_cursor, k), 24 + SEGMENT_SIZE)) :
          /\ q_cursor' = SubSeq(q_cursor, 1, StreamStart + at * CHUNK_SIZE)
                \o Rewritten(ChunkAt(q_cursor, k), Pattern(n, 100))
                \o SubSeq(q_cursor, StreamStart + at * CHUNK_SIZE + 1, Len(q_cursor))
          /\ q_scenario' = [kind |-> "duplicated",
                            file |-> string_ascii(ChunkAt(q_cursor, k), 8, 16),
                            chunk_no |-> u8(ChunkAt(q_cursor, k), 4),
                            payload |-> Pattern(n, 100),
                            size |-> u32(ChunkAt(q_cursor, k), 24 + SEGMENT_SIZE)]
    /\ UNCHANGED <<q_files, q_pc, q_total_size, q_rot, q_chunk_nos, q_i,
                   q_taken, q_written, q_pos, q_headers, q_parsed, q_warn,
                   q_err, q_result>>
    /\ UNCHANGED notQst

\* Valid-byte counts above the size of a data segment.
Oversizes == {SEGMENT_SIZE + 1, 65536}

\* The valid-byte field of one chunk is set to more than 1024.
OversizeChunk ==
    /\ q_pc = "written"
    /\ q_scenario.kind = "none"
    /\ \E k \in 1..StreamChunks(q_cursor) :
       \E v \in Oversizes :
          /\ q_cursor' = SubSeq(q_cursor, 1, StreamStart + (k - 1) * CHUNK_SIZE
                                                + 24 + SEGMENT_SIZE)
                \o write_u32(v)
                \o SubSeq(q_cursor, StreamStart + (k - 1) * CHUNK_SIZE
                                      + 24 + SEGMENT_SIZE + 5, Len(q_cursor))
          /\ q_scenario' = [kind |-> "oversized",
                            file |-> string_ascii(ChunkAt(q_cursor, k), 8, 16),
                            chunk_no |-> u8(ChunkAt(q_cursor, k), 4),
                            payload |-> SubSeq(ChunkAt(q_cursor, k), 25,
                                               24 + SEGMENT_SIZE),
                            size |-> v]
    /\ UNCHANGED <<q_files, q_pc, q_total_size, q_rot, q_chunk_nos, q_i,
                   q_taken, q_written, q_pos, q_headers, q_parsed, q_warn,
                   q_err, q_result>>
    /\ UNCHANGED notQst

\* The valid-byte field of the last chunk of the stream is set to 0.
EmptyChunk ==
    /\ q_pc = "written"
    /\ q_scenario.kind = "none"
    /\ StreamChunks(q_cursor) > 0
    /\ q_cursor' = SubSeq(q_cursor, 1, Len(q_cursor) - 8) \o write_u32(0)
                      \o SubSeq(q_cursor, Len(q_cursor) - 3, Len(q_cursor))
    /\ q_scenario' = [kind |-> "emptied",
                      file |-> string_ascii(ChunkAt(q_cursor, StreamChunks(q_cursor)), 8, 16),
                      chunk_no |-> u8(ChunkAt(q_cursor, StreamChunks(q_cursor)), 4),
                      payload |-> <<>>,
                      size |-> 0]
    /\ UNCHANGED <<q_files, q_pc, q_total_size, q_rot, q_chunk_nos, q_i,
                   q_taken, q_written, q_pos, q_headers, q_parsed, q_warn,
                   q_err, q_result>>
    /\ UNCHANGED notQst

\* ---- parse_qst

Warning(kind, file, a, b) == [kind |-> kind, file |-> file, a |-> a, b |-> b]

\* parse_headers: one header, read at offset p.
parse_header(b, p) ==
    [quest_no |-> u16(b, p + 4),
     file_name |-> string_ascii(b, p + 44, 16),
     size |-> u32(b, p + 60),
     file_name_2 |-> string_ascii(b, p + 64, 24)]

parse_headers(b) == [i \in 1..2 |-> parse_header(b, (i - 1) * HEADER_SIZE)]

\* expected_sizes.get(file_name) || null, expected_sizes being the Map built
\* from the headers (of two headers with one name the later one counts).
expected_size_of(headers, file_name) ==
    LET hits == {i \in 1..Len(headers) : headers[i].file_name = file_name}
        last == CHOOSE i \in hits : \A j \in hits : j <= i
    IN  IF hits = {} \/ headers[last].size = 0 THEN <<>> ELSE <<headers[last].size>>

\* files.get(file_name): the index of the entry, 0 if there is none.
FileIndex(files, file_name) ==
    IF \E i \in 1..Len(files) : files[i].name = file_name
    THEN CHOOSE i \in 1..Len(files) : files[i].name = file_name
    ELSE 0

\* file.data.size = n: a buffer that grows is filled with zero bytes.
SetSize(data, n) ==
    IF n >= Len(data) THEN data \o Zeros(n - Len(data)) ELSE SubSeq(data, 1, n)

\* file.data.seek_start(p).write_cursor(bytes)
WriteAt(data, p, bytes) ==
    (IF p <= Len(data) THEN SubSeq(data, 1, p) ELSE data \o Zeros(p - Len(data)))
        \o bytes
        \o SubSeq(data, p + Len(bytes) + 1, Len(data))

grown_size_last(chunk_position, size, old_size) == chunk_position + size

\* Math.max(chunk_position + size, file.data.size)
grown_size(chunk_position, size, old_size) == Max(chunk_position + size, old_size)

\* The warning of parse_files for a chunk number that is in file.chunk_nos.
duplicate_warning_none(seen, file_name, chunk_no) == <<>>

duplicate_warning(seen, file_name, chunk_no) ==
    IF seen THEN <<Warning("duplicate", file_name, chunk_no, 0)>> ELSE <<>>

\* The bytes parse_files takes for a chunk that declares size valid bytes.
clamped_size_not(size) == size

clamped_size(size) == IF size > SEGMENT_SIZE THEN SEGMENT_SIZE ELSE size

padding_skip_whole(data_size) == 1032 - SEGMENT_SIZE

\* cursor.seek(1032 - data.size): over the padding and the trailer.
padding_skip(data_size) == 1032 - data_size

\* One turn of the loop of parse_files, from the state st = [pos, files,
\* warn, err] of the cursor, the Map, the console and the error thrown.
parse_file_chunk(b, headers, st) ==
    LET start_position == st.pos
        chunk_no == u8(b, start_position + 4)
        file_name == string_ascii(b, start_position + 8, 16)
        known == FileIndex(st.files, file_name)
        files_1 ==
            IF known # 0 THEN st.files
            ELSE Append(st.files,
                        [name |-> file_name, name_2 |-> <<>>, quest_no |-> <<>>,
                         expected_size |-> expected_size_of(headers, file_name),
                         data |-> <<>>, chunk_nos |-> {}])
        idx == IF known # 0 THEN known ELSE Len(files_1)
        file == files_1[idx]
        seen == chunk_no \in file.chunk_nos
        read_size == u32(b, start_position + 24 + SEGMENT_SIZE)
        size == clamped_size(read_size)
        data == SubSeq(b, start_position + 24 + 1, start_position + 24 + size)
        chunk_position == chunk_no * SEGMENT_SIZE
        sized == SetSize(file.data, grown_size(chunk_position, size, Len(file.data)))
        end_position == start_position + 24 + Len(data) + padding_skip(Len(data))
        warn_1 == duplicate_warning(seen, file_name, chunk_no)
        warn_2 == IF read_size > SEGMENT_SIZE
                  THEN <<Warning("oversize", <<>>, read_size, 0)>> ELSE <<>>
    IN  IF Len(b) - start_position < CHUNK_SIZE
              \/ start_position + 24 + size > Len(b)
        THEN [st EXCEPT !.err = "out of bounds"]
        ELSE [pos |-> end_position,
              files |-> [files_1 EXCEPT ![idx] =
                            [file EXCEPT !.chunk_nos = @ \cup {chunk_no},
                                         !.data = WriteAt(sized, chunk_position, data)]],
              warn |-> st.warn \o warn_1 \o warn_2,
              err |-> IF end_position # start_position + CHUNK_SIZE
                      THEN "Read file chunk message bytes" ELSE ""]

\* The warnings of parse_files about one file, after the loop.
file_warnings(file) ==
    LET actual_size == Max(Len(file.data), OrElse(file.expected_size, 0))
        n == Ceil(actual_size, SEGMENT_SIZE)
        Missing(chunk_no) == chunk_no \notin file.chunk_nos
        missing == SelectSeq([k \in 1..n |-> k - 1], Missing)
    IN  (IF file.expected_size # <<>> /\ Len(file.data) # file.expected_size[1]
         THEN <<Warning("size", file.name, Len(file.data), file.expected_size[1])>>
         ELSE <<>>)
        \o [k \in 1..Len(missing) |-> Warning("missing", file.name, missing[k], 0)]

\* parse_qst: quest_no and name_2 come from the first header of that name.
with_header(headers, file) ==
    LET hits == {i \in 1..Len(headers) : headers[i].file_name = file.name}
        first == CHOOSE i \in hits : \A j \in hits : i <= j
    IN  IF hits = {} THEN file
        ELSE [file EXCEPT !.quest_no = <<headers[first].quest_no>>,
                          !.name_2 = <<headers[first].file_name_2>>]

\* parse_qst up to the call of parse_files: the version and the headers.
ParseQstStart ==
    /\ q_pc = "written"
    /\ LET version_a == u8(q_cursor, 0)
           version_b == u8(q_cursor, 2)
       IN  IF version_a = 88 /\ version_b = 68
           THEN IF Len(q_cursor) < 2 * HEADER_SIZE
                THEN /\ q_pc' = "error"
                     /\ q_err' = "out of bounds"
                     /\ UNCHANGED <<q_headers, q_pos, q_result>>
                ELSE /\ q_pc' = "parse"
                     /\ q_headers' = parse_headers(q_cursor)
                     /\ q_pos' = 2 * HEADER_SIZE
                     /\ UNCHANGED <<q_err, q_result>>
           ELSE /\ q_pc' = "done"
                /\ q_result' = [isnull |-> TRUE, version |-> "", files |-> <<>>]
                /\ UNCHANGED <<q_headers, q_pos, q_err>>
    /\ UNCHANGED <<q_files, q_cursor, q_total_size, q_rot, q_chunk_nos, q_i,
                   q_taken, q_scenario, q_written, q_parsed, q_warn>>
    /\ UNCHANGED notQst

\* One turn of the loop of parse_files.
ParseFileChunk ==
    /\ q_pc = "parse"
    /\ Len(q_cursor) - q_pos # 0
    /\ \E st \in {parse_file_chunk(q_cursor, q_headers,
                    [pos |-> q_pos, files |-> q_parsed, warn |-> q_warn, err |-> ""])} :
           /\ q_pos' = st.pos
           /\ q_parsed' = st.files
           /\ q_warn' = st.warn
           /\ q_err' = st.err
           /\ q_pc' = IF st.err # "" THEN "error" ELSE "parse"
    /\ UNCHANGED <<q_files, q_cursor, q_total_size, q_rot, q_chunk_nos, q_i,
                   q_taken, q_scenario, q_written, q_headers, q_result>>
    /\ UNCHANGED notQst

\* The end of parse_files and of parse_qst.
ParseQstEnd ==
    /\ q_pc = "parse"
    /\ Len(q_cursor) - q_pos = 0
    /\ q_warn' = q_warn
          \o Flatten([i \in 1..Len(q_parsed) |-> file_warnings(q_parsed[i])])
    /\ q_result' = [isnull |-> FALSE, version |-> "Blue Burst",
                    files |-> [i \in 1..Len(q_parsed) |->
                                  with_header(q_headers, q_parsed[i])]]
    /\ q_pc' = "done"
    /\ UNCHANGED <<q_files, q_cursor, q_total_size, q_rot, q_chunk_nos, q_i,
                   q_taken, q_scenario, q_written, q_pos, q_headers, q_parsed,
                   q_err>>
    /\ UNCHANGED notQst

NextQst ==
    \/ WriteQstStart
    \/ WriteFileChunk
    \/ WriteQstEnd
    \/ ReorderChunks
    \/ DropChunk
    \/ DuplicateChunk
    \/ OversizeChunk
    \/ EmptyChunk
    \/ ParseQstStart
    \/ ParseFileChunk
    \/ ParseQstEnd

SpecQst == InitQst /\ [][NextQst]_vars

\* ---- properties of the container codec

\* parse_files run to its end on the chunk stream of b: the loop of
\* parse_file_chunk from the first chunk on.
RECURSIVE parse_files_from(_, _, _)
parse_files_from(b, headers, st) ==
    IF st.err # "" \/ Len(b) - st.pos = 0 THEN st
    ELSE parse_files_from(b, headers, parse_file_chunk(b, headers, st))

parse_files(b, headers) ==
    parse_files_from(b, headers,
        [pos |-> 2 * HEADER_SIZE, files |-> <<>>, warn |-> <<>>, err |-> ""])

\* The name, bytes and size of every file of a list.
Contents(files) ==
    {[name |-> files[i].name, data |-> files[i].data, size |-> Len(files[i].data)] :
        i \in 1..Len(files)}

\* The container came back from parse_qst as it was written.
RoundTripExact ==
    /\ ~q_result.isnull
    /\ q_result.version = "Blue Burst"
    /\ q_err = ""
    /\ Contents(q_result.files) = Contents(q_files)

\* C1: parse_qst(write_qst(files)) is detected as the supported variant and
\* returns, for each name, a file with the original size and the original
\* bytes, for every pair of buffers: neither function throws.
C1_ContainerRoundTrip ==
    q_scenario.kind = "none" =>
        /\ q_pc # "error"
        /\ q_pc = "done" => RoundTripExact

\* What C1 says holds whenever neither buffer is empty.
C1_NonEmptyRoundTrip ==
    (q_scenario.kind = "none" /\ \A i \in 1..Len(q_files) : Len(q_files[i].data) > 0) =>
        /\ q_pc # "error"
        /\ q_pc = "done" => RoundTripExact

\* C3: with every chunk of both files present exactly once, parse_files
\* reconstructs the same bytes and the same size for each file from every
\* ordering of the chunks as from the order they were written in.
C3_Interleaving ==
    (q_pc \in {"done", "error"} /\ q_scenario.kind = "reordered") =>
        /\ q_pc = "done"
        /\ Contents(q_result.files)
              = Contents(parse_files(q_written, parse_headers(q_written)).files)

\* A stream that starts with the short last chunk of a three-chunk file and
\* ends with chunk 0 of that file, the other file's chunk in between.
C3_Witness ==
    /\ q_pc = "done"
    /\ q_scenario.kind = "reordered"
    /\ StreamChunks(q_cursor) = 4
    /\ u8(q_cursor, StreamStart + 4) = 2
    /\ u32(q_cursor, StreamStart + 24 + SEGMENT_SIZE) = 1
    /\ u8(q_cursor, StreamStart + 3 * CHUNK_SIZE + 4) = 0
    /\ string_ascii(q_cursor, StreamStart + 3 * CHUNK_SIZE + 8, 16)
          = string_ascii(q_cursor, StreamStart + 8, 16)
    /\ Len(q_result.files) = 2

\* The file a chunk was dropped from, as handed to write_qst.
DroppedFrom ==
    q_files[CHOOSE i \in 1..Len(q_files) : q_files[i].name = q_scenario.file]

\* The returned file has the payload of chunk c of the original at
\* c * 1024.
PayloadInPlace(file, original, c) ==
    LET from == c * SEGMENT_SIZE + 1
        to == Min((c + 1) * SEGMENT_SIZE, Len(original.data))
    IN  /\ Len(file.data) >= to
        /\ SubSeq(file.data, from, to) = SubSeq(original.data, from, to)

MissingChunkTolerated ==
    /\ q_pc = "done"
    /\ q_err = ""
    /\ Warning("missing", q_scenario.file, q_scenario.chunk_no, 0) \in Range(q_warn)
    /\ \E j \in 1..Len(q_result.files) :
          /\ q_result.files[j].name = q_scenario.file
          /\ \A c \in 0..(NumChunks(Len(DroppedFrom.data)) - 1) :
                c # q_scenario.chunk_no =>
                   PayloadInPlace(q_result.files[j], DroppedFrom, c)

\* C4: when exactly one chunk k of a file is absent from the stream, for any
\* k from 0 to the file's last chunk, parse_qst raises no error, warns that
\* the file is missing chunk k, and returns the file with the payload of
\* every other chunk at chunk_no * 1024.
C4_MissingChunk ==
    (q_pc \in {"done", "error"} /\ q_scenario.kind = "dropped") =>
        MissingChunkTolerated

\* What C4 says holds for a file of two chunks or more.
C4_MissingOfSeveral ==
    (/\ q_pc \in {"done", "error"}
     /\ q_scenario.kind = "dropped"
     /\ NumChunks(Len(DroppedFrom.data)) >= 2) =>
        MissingChunkTolerated

\* The file of the result that has the name of the chunk the stream was
\* changed at; 0 if there is none.
ScenarioFile == FileIndex(q_result.files, q_scenario.file)

\* The file a chunk was changed in, as handed to write_qst.
ScenarioOriginal ==
    q_files[CHOOSE i \in 1..Len(q_files) : q_files[i].name = q_scenario.file]

\* The chunks write_file_chunks writes for a file: the first one that leaves
\* no data is the last.
ChunksWritten(file) == Max(1, NumChunks(Len(file.data)))

ChunksNamed(b, file_name) ==
    {k \in 1..StreamChunks(b) : string_ascii(ChunkAt(b, k), 8, 16) = file_name}

\* The end of the payload of chunk k of the stream of b in its file.
PayloadEnd(b, k) ==
    u8(ChunkAt(b, k), 4) * SEGMENT_SIZE
        + Min(SEGMENT_SIZE, u32(ChunkAt(b, k), 24 + SEGMENT_SIZE))

\* The largest chunk_no * 1024 + valid bytes over the chunks of a file.
ObservedSize(b, file_name) ==
    LET ends == {PayloadEnd(b, k) : k \in ChunksNamed(b, file_name)}
    IN  CHOOSE e \in ends : \A o \in ends : o <= e

\* The size the header of the stream declares for a file, 0 if none.
DeclaredSize(file_name) == OrElse(expected_size_of(q_headers, file_name), 0)

\* C12: when parse_files has consumed the stream, the data of each file
\* returned has the size max(observed size, expected size from its header).
C12_FinalSize ==
    q_pc = "done" =>
        \A j \in 1..Len(q_result.files) :
            Len(q_result.files[j].data)
               = Max(ObservedSize(q_cursor, q_result.files[j].name),
                     DeclaredSize(q_result.files[j].name))

\* What the code does: the size is the observed size.
C12_ObservedSize ==
    q_pc = "done" =>
        \A j \in 1..Len(q_result.files) :
            Len(q_result.files[j].data)
               = ObservedSize(q_cursor, q_result.files[j].name)

\* The file and chunk number of every chunk of the stream of b, in order.
Emitted(b) ==
    [k \in 1..StreamChunks(b) |->
        [file |-> string_ascii(ChunkAt(b, k), 8, 16),
         chunk_no |-> u8(ChunkAt(b, k), 4),
         size |-> u32(ChunkAt(b, k), 24 + SEGMENT_SIZE)]]

\* Round r of the rotation: one chunk for every file that has a chunk r, in
\* the order of files.
RoundOf(files, r) ==
    LET In(i) == r < ChunksWritten(files[i])
        rot == SelectSeq([i \in 1..Len(files) |-> i], In)
    IN  [k \in 1..Len(rot) |->
            [file |-> files[rot[k]].name,
             chunk_no |-> r,
             size |-> Min(SEGMENT_SIZE, Len(files[rot[k]].data) - r * SEGMENT_SIZE)]]

\* All rounds, until no file has a chunk left.
RoundRobin(files) ==
    Flatten([r \in 1..MaxStreamChunks |-> RoundOf(files, r - 1)])

IsPrefix(s, t) == Len(s) <= Len(t) /\ s = SubSeq(t, 1, Len(s))

\* The files of the rotation are those with a chunk still to write, in the
\* order of files.
RotationRight ==
    LET Left(i) == \E k \in (StreamChunks(q_cursor) + 1)..Len(RoundRobin(q_files)) :
                       RoundRobin(q_files)[k].file = q_files[i].name
    IN  q_rot = SelectSeq([i \in 1..Len(q_files) |-> i], Left)

\* C13: write_file_chunks writes the chunks in rounds, one chunk per file of
\* the rotation per round in the order of files; a file leaves the rotation
\* right after the chunk that exhausts its data; the loop ends when no file
\* is left, and no file with data left is skipped.
C13_RoundRobin ==
    q_pc = "chunks" =>
        /\ IsPrefix(Emitted(q_cursor), RoundRobin(q_files))
        /\ RotationRight
        /\ q_rot = <<>> <=> Emitted(q_cursor) = RoundRobin(q_files)

\* The loop has ended after a round in which only one file was left.
C13_Witness ==
    /\ q_pc = "chunks"
    /\ q_rot = <<>>
    /\ StreamChunks(q_cursor) = 4
    /\ Emitted(q_cursor)[1].file # Emitted(q_cursor)[2].file
    /\ Emitted(q_cursor)[3].file = Emitted(q_cursor)[4].file
    /\ Emitted(q_cursor)[4].chunk_no = 2

\* C17: for a chunk whose valid-byte field is above 1024, parse_files reads
\* 1024 payload bytes, warns, does not fail, and consumes one chunk of 1056
\* bytes, so that the chunks after it are parsed from their boundaries.
C17_OversizedPayload ==
    q_scenario.kind = "oversized" =>
        /\ q_pc # "error"
        /\ q_pc = "parse" => (q_pos - StreamStart) % CHUNK_SIZE = 0
        /\ q_pc = "done" =>
              /\ Warning("oversize", <<>>, q_scenario.size, 0) \in Range(q_warn)
              /\ ScenarioFile # 0
              /\ LET file == q_result.files[ScenarioFile]
                     from == q_scenario.chunk_no * SEGMENT_SIZE
                 IN  /\ Len(file.data) = Max(from + SEGMENT_SIZE,
                                           Len(ScenarioOriginal.data))
                     /\ SubSeq(file.data, from + 1, from + SEGMENT_SIZE)
                           = q_scenario.payload
              /\ \A i \in 1..Len(q_files) :
                    \E j \in 1..Len(q_result.files) :
                       /\ q_result.files[j].name = q_files[i].name
                       /\ \A c \in 0..(NumChunks(Len(q_files[i].data)) - 1) :
                              PayloadInPlace(q_result.files[j], q_files[i], c)

\* An oversized chunk that is not the last of the stream and holds one valid
\* byte was parsed, and the chunks after it.
C17_Witness ==
    /\ q_pc = "done"
    /\ q_scenario.kind = "oversized"
    /\ q_scenario.size = 65536
    /\ q_scenario.chunk_no = 0
    /\ Len(ScenarioOriginal.data) = 1
    /\ StreamChunks(q_cursor) = 4
    /\ Len(q_result.files) = 2

\* The valid-byte field of the chunk the cursor of parse_files is at.
SizeField == u32(q_cursor, q_pos + 24 + SEGMENT_SIZE)

\* C26: a turn of the loop of parse_files that reads its chunk completely
\* leaves the cursor exactly 1056 bytes after the start of the chunk,
\* whatever the valid-byte field and the chunk number are (a turn that
\* runs out of the buffer leaves the cursor where it was); the error 'Read
\* N file chunk message bytes instead of expected 1056' is never thrown.
C26_ChunkFraming ==
    /\ [][(q_pc = "parse" /\ Len(q_cursor) - q_pos # 0) =>
            \/ q_pos' = q_pos + CHUNK_SIZE /\ q_err' = "" /\ q_pc' = "parse"
            \/ q_pos' = q_pos /\ q_err' = "out of bounds" /\ q_pc' = "error"]_vars
    /\ [](q_err # "Read file chunk message bytes")

\* A stream of four chunks was read whose last chunk declares no valid
\* byte, the others 1024.
C26_Witness ==
    /\ q_pc = "done"
    /\ q_err = ""
    /\ q_pos = Len(q_cursor)
    /\ q_scenario.kind = "emptied"
    /\ StreamChunks(q_cursor) = 4
    /\ u32(ChunkAt(q_cursor, 4), 24 + SEGMENT_SIZE) = 0
    /\ u32(ChunkAt(q_cursor, 1), 24 + SEGMENT_SIZE) = SEGMENT_SIZE

\* A chunk that declares 65536 valid bytes was read, and the chunks after
\* it.
C26_WitnessOversized ==
    /\ q_pc = "done"
    /\ q_pos = Len(q_cursor)
    /\ StreamChunks(q_cursor) = 3
    /\ u32(ChunkAt(q_cursor, 1), 24 + SEGMENT_SIZE) = 65536
    /\ u32(ChunkAt(q_cursor, 3), 24 + SEGMENT_SIZE) = 1

\* The sum over files of 88 + ceil(size / 1024) * 1056.
RECURSIVE BytesDue(_)
BytesDue(files) ==
    IF files = <<>> THEN 0
    ELSE HEADER_SIZE + NumChunks(Len(Head(files).data)) * CHUNK_SIZE
         + BytesDue(Tail(files))

\* write_file_chunks has written its last chunk.
ChunksDone == q_pc = "chunks" /\ q_rot = <<>>

\* C27: write_qst emits exactly ceil(size / 1024) chunks for each file, the
\* bytes written total the sum over files of 88 + ceil(size / 1024) * 1056,
\* and the final-size check does not throw, for files of every size: 0 and
\* the multiples of 1024 included.
C27_WrittenSize ==
    /\ q_err # "Expected a final file size"
    /\ ChunksDone =>
          /\ \A i \in 1..Len(q_files) :
                Cardinality(ChunksNamed(q_cursor, q_files[i].name))
                   = NumChunks(Len(q_files[i].data))
          /\ Len(q_cursor) = BytesDue(q_files)
          /\ Len(q_cursor) = q_total_size

\* What C27 says holds for files that are not empty.
C27_NonEmptyWrittenSize ==
    (\A i \in 1..Len(q_files) : Len(q_files[i].data) > 0) => C27_WrittenSize

\* ---- files of many chunks
\*
\* write_file_chunks and parse_files for files of any number of chunks. The
\* bytes of a file are those of Pattern, so that a file is given by its size,
\* and of the container the chunk written last is kept: parse_files reads the
\* chunks in the order they were written in and looks at one chunk at a time,
\* so it is handed every chunk as it is written.

\* The chunks of the long file: one more than the 256 values of a byte.
LongChunks == 257

\* SubSeq(Pattern(n, seed), from + 1, from + size)
PatternPiece(from, size, seed) ==
    [i \in 1..size |-> (seed + 7 * (from + i - 1)) % 251]

LongNames == <<DatName, BinName>>

\* The sizes of "q.dat" and "q.bin": a file of LongChunks chunks, the last
\* one of one byte, and files of few chunks.
LongSizes ==
    {<<(LongChunks - 1) * SEGMENT_SIZE + 1, 1>>,
     <<2 * SEGMENT_SIZE, SEGMENT_SIZE + 1>>,
     <<1, 3 * SEGMENT_SIZE>>}

InitQstLong ==
    /\ l_sizes \in LongSizes
    /\ l_pc = "chunks"
    /\ l_rot = <<1, 2>>
    /\ l_chunk_nos = <<0, 0>>
    /\ l_i = 0
    /\ l_taken = <<0, 0>>
    /\ l_emitted = <<0, 0>>
    /\ l_chunk = <<>>
    /\ l_from = [file |-> 0, call |-> 0, position |-> 0]
    /\ l_parsed = <<>>
    /\ l_put = [name |-> <<>>, position |-> 0, data |-> <<>>]
    /\ l_warn = <<>>
    /\ IdleScript
    /\ IdleDat
    /\ IdleQst
    /\ IdleNj
    /\ IdleAssets

\* One turn of the inner loop of write_file_chunks, as WriteFileChunk: data
\* is the file's bytes from data.position on, as far as write_file_chunk
\* takes them, and bytes_left is what the file has beyond them.
LongWriteChunk ==
    /\ l_pc = "chunks"
    /\ l_chunk = <<>>
    /\ LET i == round_index(l_i, Len(l_rot))
           f == l_rot[i + 1]
           size == Min(SEGMENT_SIZE, l_sizes[f] - l_taken[f])
           bytes_left == l_sizes[f] - (l_taken[f] + size)
       IN  /\ l_chunk' = write_file_chunk(PatternPiece(l_taken[f], size, f), 0,
                                          l_chunk_nos[i + 1], LongNames[f]).bytes
           /\ l_taken' = [l_taken EXCEPT ![f] = @ + size]
           /\ l_from' = [file |-> f, call |-> l_emitted[f], position |-> l_taken[f]]
           /\ l_emitted' = [l_emitted EXCEPT ![f] = @ + 1]
           /\ IF bytes_left # 0
              THEN /\ l_rot' = l_rot
                   /\ l_chunk_nos' = [l_chunk_nos EXCEPT ![i + 1] = @ + 1]
                   /\ l_i' = i + 1
              ELSE /\ l_rot' = Splice(l_rot, i)
                   /\ l_chunk_nos' = Splice(l_chunk_nos, i)
                   /\ l_i' = i
    /\ UNCHANGED <<l_sizes, l_pc, l_parsed, l_put, l_warn>>
    /\ UNCHANGED notLong

\* One turn of the loop of parse_files, as parse_file_chunk, on the chunk
\* written last; of file.data its size is kept.
LongParseChunk ==
    /\ l_pc = "chunks"
    /\ l_chunk # <<>>
    /\ LET chunk_no == u8(l_chunk, 4)
           file_name == string_ascii(l_chunk, 8, 16)
           known == FileIndex(l_parsed, file_name)
           files_1 == IF known # 0 THEN l_parsed
                      ELSE Append(l_parsed, [name |-> file_name, size |-> 0,
                                             chunk_nos |-> {}])
           idx == IF known # 0 THEN known ELSE Len(files_1)
           file == files_1[idx]
           size == clamped_size(u32(l_chunk, 24 + SEGMENT_SIZE))
           chunk_position == chunk_no * SEGMENT_SIZE
       IN  /\ l_warn' = l_warn
                 \o duplicate_warning(chunk_no \in file.chunk_nos, file_name, chunk_no)
           /\ l_parsed' = [files_1 EXCEPT ![idx] =
                             [file EXCEPT !.chunk_nos = @ \cup {chunk_no},
                                          !.size = grown_size(chunk_position, size, @)]]
           /\ l_put' = [name |-> file_name, position |-> chunk_position,
                        data |-> SubSeq(l_chunk, 24 + 1, 24 + size)]
    /\ l_chunk' = <<>>
    /\ l_pc' = IF l_rot = <<>> THEN "done" ELSE "chunks"
    /\ UNCHANGED <<l_sizes, l_rot, l_chunk_nos, l_i, l_taken, l_emitted, l_from>>
    /\ UNCHANGED notLong

NextQstLong ==
    \/ LongWriteChunk
    \/ LongParseChunk

SpecQstLong == InitQstLong /\ [][NextQstLong]_vars

\* A chunk is on its way from write_file_chunks to parse_files.
InFlight == l_chunk # <<>>

\* parse_files has read the chunk written last.
Landed == l_put.name # <<>> /\ ~InFlight

\* The chunk written last carries the number of the call that wrote it and
\* the bytes of its file from that number * 1024 on.
CarriesPiece ==
    LET size == Min(SEGMENT_SIZE, l_sizes[l_from.file] - l_from.call * SEGMENT_SIZE)
    IN  /\ u8(l_chunk, 4) = l_from.call
        /\ u32(l_chunk, 24 + SEGMENT_SIZE) = size
        /\ SubSeq(l_chunk, 24 + 1, 24 + size)
              = PatternPiece(l_from.call * SEGMENT_SIZE, size, l_from.file)

\* parse_files wrote the payload read last where write_file_chunk took it
\* from.
PutBack ==
    /\ l_put.name = LongNames[l_from.file]
    /\ l_put.position = l_from.position
    /\ l_put.data = PatternPiece(l_from.position, Len(l_put.data), l_from.file)

\* C28: the k-th chunk (k = 0, 1, 2, ...) write_qst emits for a file carries
\* sequence number k and the file's bytes from k * 1024 on, so the chunks of
\* one file have distinct sequence numbers (parse_files meets no number a
\* second time) and parse_files puts each payload back at its original
\* offset, for files of more than 256 chunks too.
C28_ChunkNumbering ==
    /\ InFlight => CarriesPiece
    /\ l_warn = <<>>
    /\ Landed => PutBack

\* What C28 says holds for the first 256 chunks of a file.
C28_FirstChunks ==
    /\ (InFlight /\ l_from.call < 256) => CarriesPiece
    /\ (l_from.call < 256) => l_warn = <<>>
    /\ (Landed /\ l_from.call < 256) => PutBack

\* The chunk after the first 256 chunks of a file: it carries number 0, and
\* parse_files writes its payload at offset 0.
C28_Wrapped ==
    /\ Landed
    /\ l_from.call = 256
    /\ l_put.position = 0
    /\ l_warn # <<>>

\* ------------------------------------------------------------------------
\* Model chunk parser (parse_njcm)
\* ------------------------------------------------------------------------

NODE_SIZE == 52

MaxNodes == 3
MaxIndices == 4
MaxCalls == 2

RECURSIVE Pow2(_)
Pow2(n) == IF n = 0 THEN 1 ELSE 2 * Pow2(n - 1)

\* No traversal of a scene without cycle makes that many visits; the
\* traversal of a scene with a cycle is followed up to there.
MaxVisits == Pow2(MaxNodes + 1)

\* The number a 32-bit float stands for, for the floats that are integers
\* (the only ones the model puts into a buffer).
f32_number(x) ==
    IF x.e = 0 THEN 0
    ELSE LET magnitude == (8388608 + x.m) \div Pow2(150 - x.e)
         IN  IF x.s = 1 THEN -magnitude ELSE magnitude

\* (eval_flags & (1 << bit)) !== 0
FlagSet(flags, bit) == (flags \div Pow2(bit)) % 2 = 1

\* A Matrix4 without rotation: p |-> s * p + t, component by component.
\* exact is FALSE once a rotation other than the identity went into it.
Matrix4Identity == [s |-> <<1, 1, 1>>, t |-> <<0, 0, 0>>, exact |-> TRUE]

\* new Matrix4().compose(translation, quaternion, scale)
compose(translation, identity_rotation, scale) ==
    [s |-> scale, t |-> translation, exact |-> identity_rotation]

\* m.premultiply(parent): parent * m
premultiply(m, parent) ==
    [s |-> [k \in 1..3 |-> parent.s[k] * m.s[k]],
     t |-> [k \in 1..3 |-> parent.s[k] * m.t[k] + parent.t[k]],
     exact |-> parent.exact /\ m.exact]

\* new Vector3(...position).applyMatrix4(matrix)
applyMatrix4(point, matrix) ==
    [k \in 1..3 |-> matrix.s[k] * point[k] + matrix.t[k]]

\* A number that need not be whole, in lowest terms.
RECURSIVE Gcd(_, _)
Gcd(a, b) == IF b = 0 THEN a ELSE Gcd(b, a % b)

Ratio(n, d) ==
    LET g == Gcd(Abs(n), Abs(d))
        sign == IF d < 0 THEN -1 ELSE 1
    IN  [t |-> "number", n |-> sign * (n \div g), d |-> sign * (d \div g)]

\* new Vector3(...normal).applyMatrix3(new Matrix3().getNormalMatrix(matrix)):
\* the normal matrix is the transposed inverse of the upper 3 x 3 part.
applyNormalMatrix(normal, matrix) ==
    [k \in 1..3 |-> Ratio(normal[k], matrix.s[k])]

\* The matrix of one node record, read at offset p, under parent_matrix.
node_record(b, p) ==
    [eval_flags |-> u32(b, p),
     model_offset |-> u32(b, p + 4),
     pos |-> [k \in 1..3 |-> f32_number(f32(b, p + 4 + 4 * k))],
     rotation |-> [k \in 1..3 |-> i32(b, p + 16 + 4 * k)],
     scale |-> [k \in 1..3 |-> f32_number(f32(b, p + 28 + 4 * k))],
     child_offset |-> u32(b, p + 44),
     sibling_offset |-> u32(b, p + 48)]

local_matrix(node) ==
    compose(IF FlagSet(node.eval_flags, 0) THEN <<0, 0, 0>> ELSE node.pos,
            FlagSet(node.eval_flags, 1) \/ node.rotation = <<0, 0, 0>>,
            IF FlagSet(node.eval_flags, 2) THEN <<1, 1, 1>> ELSE node.scale)

node_matrix(node, parent_matrix) == premultiply(local_matrix(node), parent_matrix)

\* ---- chunk streams

\* parse_chunk_vertex: the bytes one vertex takes after its position.
vertex_tail(chunk_type_id) ==
    CASE chunk_type_id = 32 -> 4
      [] chunk_type_id = 33 -> 20
      [] chunk_type_id \in 35..40 -> 4
      [] chunk_type_id = 41 -> 12
      [] chunk_type_id \in 42..47 -> 16
      [] chunk_type_id = 48 -> 4
      [] chunk_type_id \in 49..50 -> 8
      [] OTHER -> 0

\* parse_chunk_vertex: the vertex read at offset p, the i-th of its chunk
\* (i from 0); normal is <<>> when the chunk carries none.
vertex_index_sequential(b, p, chunk_type_id, index, i) == index + i

\* index: index + i, replaced by index + cursor.u16() in chunks 37 and 44.
vertex_index(b, p, chunk_type_id, index, i) ==
    IF chunk_type_id = 37 THEN index + u16(b, p + 12)
    ELSE IF chunk_type_id = 44 THEN index + u16(b, p + 24)
    ELSE index + i

chunk_vertex(b, p, chunk_type_id, index, i) ==
    [index |-> vertex_index(b, p, chunk_type_id, index, i),
     position |-> [k \in 1..3 |-> f32_number(f32(b, p + 4 * (k - 1)))],
     normal |-> IF chunk_type_id = 33
                THEN <<[k \in 1..3 |-> f32_number(f32(b, p + 12 + 4 * k))]>>
                ELSE IF chunk_type_id \in 41..47
                THEN <<[k \in 1..3 |-> f32_number(f32(b, p + 8 + 4 * k))]>>
                ELSE <<>>]

\* parse_chunk_vertex, the cursor at offset p; ok is FALSE when a read goes
\* past the end of the buffer.
parse_chunk_vertex(b, p, chunk_type_id, flags) ==
    IF flags % 4 # 0 THEN [ok |-> TRUE, vertices |-> <<>>]
    ELSE IF p + 4 > Len(b) THEN [ok |-> FALSE, vertices |-> <<>>]
    ELSE LET index == u16(b, p)
             vertex_count == u16(b, p + 2)
             stride == 12 + vertex_tail(chunk_type_id)
         IN  IF p + 4 + vertex_count * stride > Len(b)
             THEN [ok |-> FALSE, vertices |-> <<>>]
             ELSE [ok |-> TRUE,
                   vertices |-> [i \in 1..vertex_count |->
                                   chunk_vertex(b, p + 4 + (i - 1) * stride,
                                                chunk_type_id, index, i - 1)]]

\* parse_chunk_triangle_strip: options, as the bytes skipped after an index.
strip_index_extra(chunk_type_id) ==
    CASE chunk_type_id \in {64, 73} -> 0
      [] chunk_type_id \in {65, 66} -> 4
      [] chunk_type_id = 67 -> 6
      [] chunk_type_id \in {68, 69} -> 10
      [] chunk_type_id = 70 -> 4
      [] chunk_type_id \in {71, 72} -> 8
      [] chunk_type_id \in {74, 75} -> 12
      [] OTHER -> 0

\* The offset of index j (from 0) of a strip whose indices start at p.
strip_index_offset(p, j, extra, user_flags_size) ==
    p + j * (2 + extra) + (IF j > 2 THEN (j - 2) * 2 * user_flags_size ELSE 0)

clockwise_winding_never(winding_flag_and_index_count) == FALSE

\* const clockwise_winding = winding_flag_and_index_count < 1
clockwise_winding_of(winding_flag_and_index_count) ==
    winding_flag_and_index_count < 1

\* parse_chunk_triangle_strip: the strips from the i-th on, the cursor at p.
RECURSIVE parse_strips(_, _, _, _, _)
parse_strips(b, p, remaining, extra, user_flags_size) ==
    IF remaining = 0 THEN [ok |-> TRUE, strips |-> <<>>]
    ELSE IF p + 2 > Len(b) THEN [ok |-> FALSE, strips |-> <<>>]
    ELSE LET winding_flag_and_index_count == i16(b, p)
             index_count == Abs(winding_flag_and_index_count)
             end == strip_index_offset(p + 2, index_count, extra, user_flags_size)
         IN  IF end > Len(b) THEN [ok |-> FALSE, strips |-> <<>>]
             ELSE LET rest == parse_strips(b, end, remaining - 1, extra,
                                           user_flags_size)
                  IN  [ok |-> rest.ok,
                       strips |->
                          <<[clockwise_winding |->
                                 clockwise_winding_of(winding_flag_and_index_count),
                             indices |-> [j \in 1..index_count |->
                                 u16(b, strip_index_offset(p + 2, j - 1, extra,
                                                           user_flags_size))]]>>
                          \o rest.strips]

parse_chunk_triangle_strip(b, p, chunk_type_id) ==
    IF p + 2 > Len(b) THEN [ok |-> FALSE, strips |-> <<>>]
    ELSE parse_strips(b, p + 2, u16(b, p) % 16384,
                      strip_index_extra(chunk_type_id), u16(b, p) \div 16384)

Chunk(chunk_type, chunk_type_id, vertices, strips) ==
    [chunk_type |-> chunk_type, chunk_type_id |-> chunk_type_id,
     vertices |-> vertices, strips |-> strips]

ChunksFailed(cache, warn, err) ==
    [chunks |-> <<>>, cache |-> cache, warn |-> warn, err |-> err]

chunk_type_of(chunk_type_id) ==
    CASE chunk_type_id = 0 -> "NULL"
      [] chunk_type_id \in 1..5 -> "BITS"
      [] chunk_type_id \in 8..9 -> "TINY"
      [] chunk_type_id \in 17..31 -> "MATERIAL"
      [] chunk_type_id \in 32..50 -> "VERTEX"
      [] chunk_type_id \in 56..58 -> "VOLUME"
      [] chunk_type_id \in 64..75 -> "STRIP"
      [] chunk_type_id = 255 -> "END"
      [] OTHER -> "UNKOWN"

\* parse_chunks: size, the cursor at chunk_start_position.
chunk_size(b, chunk_start_position, chunk_type_id, wide_end_chunks) ==
    CASE chunk_type_of(chunk_type_id) = "TINY" -> 2
      [] chunk_type_of(chunk_type_id) = "VERTEX" -> 2 + 4 * u16(b, chunk_start_position)
      [] chunk_type_of(chunk_type_id) \in {"MATERIAL", "VOLUME", "STRIP", "UNKOWN"} ->
            2 + 2 * u16(b, chunk_start_position)
      [] chunk_type_of(chunk_type_id) = "END" -> IF wide_end_chunks THEN 2 ELSE 0
      [] OTHER -> 0

\* Whether the chunk has a size field.
chunk_sized(chunk_type_id) ==
    chunk_type_of(chunk_type_id) \in {"MATERIAL", "VERTEX", "VOLUME", "STRIP", "UNKOWN"}

chunk_vertex_data(b, chunk_start_position, chunk_type_id, flags) ==
    IF chunk_type_of(chunk_type_id) = "VERTEX"
    THEN parse_chunk_vertex(b, chunk_start_position + 2, chunk_type_id, flags)
    ELSE [ok |-> TRUE, vertices |-> <<>>]

chunk_strip_data(b, chunk_start_position, chunk_type_id) ==
    IF chunk_type_of(chunk_type_id) = "STRIP"
    THEN parse_chunk_triangle_strip(b, chunk_start_position + 2, chunk_type_id)
    ELSE [ok |-> TRUE, strips |-> <<>>]

unknown_warning(chunk_type_id) ==
    IF chunk_type_of(chunk_type_id) = "UNKOWN"
    THEN <<[kind |-> "Unknown chunk type", id |-> chunk_type_id]>>
    ELSE <<>>

\* parse_chunks from offset pos on: the chunks, the cache as it is left, the
\* warnings and the error thrown ("" if none).  cache maps a store index to
\* an offset.
RECURSIVE parse_chunks(_, _, _, _)
RECURSIVE chunk_drawn(_, _, _, _, _)
RECURSIVE chunk_pushed(_, _, _, _, _, _, _)
RECURSIVE chunk_parsed(_, _, _, _, _, _, _, _, _, _)

\* A type-5 chunk: the chunks of the stream at the cached offset.
chunk_drawn(b, cache, wide_end_chunks, chunk_type_id, flags) ==
    IF chunk_type_id # 5 THEN ChunksFailed(cache, <<>>, "")
    ELSE IF flags \in DOMAIN cache
    THEN parse_chunks(b, cache[flags], cache, wide_end_chunks)
    ELSE ChunksFailed(cache, <<>>, "Offset undefined is out of bounds")

\* The chunk is pushed; the loop goes on at offset next unless it was the
\* last chunk.
chunk_pushed(b, next, wide_end_chunks, last, here, cache, warn) ==
    IF last THEN [chunks |-> here, cache |-> cache, warn |-> warn, err |-> ""]
    ELSE LET rest == parse_chunks(b, next, cache, wide_end_chunks)
         IN  [chunks |-> here \o rest.chunks, cache |-> rest.cache,
              warn |-> warn \o rest.warn, err |-> rest.err]

loop_ends_at_end_only(chunk_type_id) == chunk_type_id = 255

\* loop = false: after a CACHE_POLYGON_LIST chunk and after an END chunk.
loop_ends(chunk_type_id) == chunk_type_id = 4 \/ chunk_type_id = 255

cached_here_header(cache, chunk_type_id, flags, chunk_start_position) ==
    IF chunk_type_id = 4 THEN (flags :> chunk_start_position - 2) @@ cache
    ELSE cache

\* cached_chunk_offsets[data.store_index] = data.offset, the offset being
\* cursor.position once the two bytes of the chunk header are read.
cached_here(cache, chunk_type_id, flags, chunk_start_position) ==
    IF chunk_type_id = 4 THEN (flags :> chunk_start_position) @@ cache
    ELSE cache

chunk_parsed(b, chunk_start_position, cache, wide_end_chunks, chunk_type_id, flags, size, vertex_data, strip_data, drawn) ==
    IF drawn.err # ""
    THEN ChunksFailed(drawn.cache, drawn.warn, drawn.err)
    ELSE IF ~vertex_data.ok \/ ~strip_data.ok \/ chunk_start_position + size > Len(b)
    THEN ChunksFailed(drawn.cache, drawn.warn, "out of bounds")
    ELSE chunk_pushed(b, chunk_start_position + size, wide_end_chunks,
            loop_ends(chunk_type_id),
            drawn.chunks \o <<Chunk(chunk_type_of(chunk_type_id), chunk_type_id,
                                    vertex_data.vertices, strip_data.strips)>>,
            cached_here(drawn.cache, chunk_type_id, flags, chunk_start_position),
            drawn.warn \o unknown_warning(chunk_type_id))

parse_chunks(b, pos, cache, wide_end_chunks) ==
    IF pos + 2 > Len(b) THEN ChunksFailed(cache, <<>>, "out of bounds")
    ELSE IF chunk_sized(u8(b, pos)) /\ pos + 4 > Len(b)
    THEN ChunksFailed(cache, <<>>, "out of bounds")
    ELSE chunk_parsed(b, pos + 2, cache, wide_end_chunks, u8(b, pos), u8(b, pos + 1),
                      chunk_size(b, pos + 2, u8(b, pos), wide_end_chunks),
                      chunk_vertex_data(b, pos + 2, u8(b, pos), u8(b, pos + 1)),
                      chunk_strip_data(b, pos + 2, u8(b, pos)),
                      chunk_drawn(b, cache, wide_end_chunks, u8(b, pos), u8(b, pos + 1)))

\* ---- parse_model

\* vertices[vertex.index] = { position, normal } for the vertices of one
\* chunk, in order.  A vertex without a normal gets the array [0, 1, 0].
RECURSIVE store_vertices(_, _, _)
store_vertices(vertices, chunk_vertices, matrix) ==
    IF chunk_vertices = <<>> THEN vertices
    ELSE LET vertex == Head(chunk_vertices)
             stored ==
                [position |-> applyMatrix4(vertex.position, matrix),
                 normal |-> IF vertex.normal # <<>>
                            THEN [kind |-> "Vector3",
                                  v |-> applyNormalMatrix(vertex.normal[1], matrix)]
                            ELSE [kind |-> "Array", v |-> <<0, 1, 0>>]]
         IN  store_vertices((vertex.index :> stored) @@ vertices,
                            Tail(chunk_vertices), matrix)

RECURSIVE store_chunks(_, _, _)
store_chunks(vertices, chunks, matrix) ==
    IF chunks = <<>> THEN vertices
    ELSE store_chunks(IF Head(chunks).chunk_type = "VERTEX"
                      THEN store_vertices(vertices, Head(chunks).vertices, matrix)
                      ELSE vertices,
                      Tail(chunks), matrix)

\* normal.x, normal.y, normal.z: an array has no such properties.
normal_xyz(normal) ==
    IF normal.kind = "Vector3" THEN normal.v
    ELSE <<Undefined, Undefined, Undefined>>

slots_populated_never(vertices, ia, ib, ic) == FALSE

\* if (a && b && c): every slot written holds an object.
slots_populated(vertices, ia, ib, ic) == {ia, ib, ic} \subseteq DOMAIN vertices

\* The floats of strip positions j, j + 1, ... (j counts from 0).
RECURSIVE strip_from(_, _, _)
strip_from(strip, vertices, j) ==
    IF j >= Len(strip.indices) THEN [positions |-> <<>>, normals |-> <<>>]
    ELSE LET ia == strip.indices[j - 1]
             ib == strip.indices[j]
             ic == strip.indices[j + 1]
             rest == strip_from(strip, vertices, j + 1)
         IN  IF slots_populated(vertices, ia, ib, ic)
             THEN LET a == vertices[ia]
                      b == vertices[ib]
                      c == vertices[ic]
                      straight == j % 2 = (IF strip.clockwise_winding THEN 1 ELSE 0)
                      first == IF straight THEN a ELSE b
                      second == IF straight THEN b ELSE a
                  IN  [positions |-> first.position \o second.position
                                     \o c.position \o rest.positions,
                       normals |-> normal_xyz(first.normal) \o normal_xyz(second.normal)
                                   \o normal_xyz(c.normal) \o rest.normals]
             ELSE rest

triangles_of_strip_late(strip, vertices) == strip_from(strip, vertices, 3)

\* for (let j = 2; j < strip_indices.length; ++j)
triangles_of_strip(strip, vertices) == strip_from(strip, vertices, 2)

RECURSIVE triangles_of_strips(_, _)
triangles_of_strips(strips, vertices) ==
    IF strips = <<>> THEN [positions |-> <<>>, normals |-> <<>>]
    ELSE LET head == triangles_of_strip(Head(strips), vertices)
             rest == triangles_of_strips(Tail(strips), vertices)
         IN  [positions |-> head.positions \o rest.positions,
              normals |-> head.normals \o rest.normals]

\* The strips of the STRIP chunks of a chunk list, in order.
RECURSIVE strips_of(_)
strips_of(chunks) ==
    IF chunks = <<>> THEN <<>>
    ELSE (IF Head(chunks).chunk_type = "STRIP" THEN Head(chunks).strips ELSE <<>>)
         \o strips_of(Tail(chunks))

\* What parse_model leaves in positions, normals, cached_chunk_offsets and
\* vertices, its warnings and the error thrown.
ModelResult(positions, normals, cache, vertices, warn, err) ==
    [positions |-> positions, normals |-> normals, cache |-> cache,
     vertices |-> vertices, warn |-> warn, err |-> err,
     populated |-> DOMAIN vertices]

\* The chunks at a list offset; nothing for offset 0.
chunk_list(b, offset, cache, wide_end_chunks) ==
    IF offset = 0 THEN ChunksFailed(cache, <<>>, "")
    ELSE IF offset > Len(b) THEN ChunksFailed(cache, <<>>, "out of bounds")
    ELSE parse_chunks(b, offset, cache, wide_end_chunks)

\* parse_model from the strip list on.
model_strips(positions, normals, vertices, warn, plist, emitted) ==
    IF plist.err # ""
    THEN ModelResult(positions, normals, plist.cache, vertices,
                     warn \o plist.warn, plist.err)
    ELSE ModelResult(positions \o emitted.positions, normals \o emitted.normals,
                     plist.cache, vertices, warn \o plist.warn, "")

model_plist(positions, normals, vertices, warn, plist) ==
    model_strips(positions, normals, vertices, warn, plist,
                 triangles_of_strips(strips_of(plist.chunks), vertices))

\* parse_model from the vertex list on.
model_vlist(b, plist_offset, matrix, positions, normals, vertices, vlist) ==
    IF vlist.err # ""
    THEN ModelResult(positions, normals, vlist.cache, vertices, vlist.warn, vlist.err)
    ELSE model_plist(positions, normals, store_chunks(vertices, vlist.chunks, matrix),
                     vlist.warn, chunk_list(b, plist_offset, vlist.cache, FALSE))

\* parse_model, the cursor at offset p.
parse_model(b, p, matrix, positions, normals, cache, vertices) ==
    IF p + 8 > Len(b)
    THEN ModelResult(positions, normals, cache, vertices, <<>>, "out of bounds")
    ELSE model_vlist(b, u32(b, p + 4), matrix, positions, normals, vertices,
                     chunk_list(b, u32(b, p), cache, TRUE))

\* ---- the buffers the model parses

RECURSIVE FloorLog2(_)
FloorLog2(n) == IF n < 2 THEN 0 ELSE 1 + FloorLog2(n \div 2)

\* The 32-bit float that stands for the integer n.
F32FromInt(n) ==
    IF n = 0 THEN F32Zero
    ELSE LET k == FloorLog2(Abs(n))
         IN  [s |-> IF n < 0 THEN 1 ELSE 0, e |-> 127 + k,
              m |-> Abs(n) * Pow2(23 - k) - 8388608]

write_vector(v) ==
    write_f32(F32FromInt(v[1])) \o write_f32(F32FromInt(v[2]))
    \o write_f32(F32FromInt(v[3]))

\* Node k of a scene: its own translation, rotation and scale.
NodePos(k) == <<k, 0 - k, 2 * k>>
NodeScale(k) == IF k % 2 = 1 THEN <<2, 1, -1>> ELSE <<-1, 2, 1>>
NodeRotation(flags) == IF FlagSet(flags, 1) THEN <<1000, 0, -5>> ELSE <<0, 0, 0>>

NodeOffset(k) == IF k = 0 THEN 0 ELSE (k - 1) * NODE_SIZE

NodeBytes(k, flags, model_offset, child, sibling) ==
    write_u32(flags) \o write_u32(model_offset)
    \o write_vector(NodePos(k))
    \o write_i32(NodeRotation(flags)[1]) \o write_i32(NodeRotation(flags)[2])
    \o write_i32(NodeRotation(flags)[3])
    \o write_vector(NodeScale(k))
    \o write_u32(NodeOffset(child)) \o write_u32(NodeOffset(sibling))

\* The three vertices of the model every node points at.
RawPosition(i) == <<i + 1, 2 * i, 3 - i>>
RawNormal(i) == <<i, 2, 0 - 4>>

VertexBytes(chunk_type_id, i) ==
    write_vector(RawPosition(i)) \o write_f32(F32One)
    \o (IF chunk_type_id = 33
        THEN write_vector(RawNormal(i)) \o write_f32(F32Zero) ELSE <<>>)

\* A vertex chunk for slots 0..2, closed by a wide END chunk.
VlistBytes(chunk_type_id) ==
    <<chunk_type_id, 0>>
    \o write_u16(1 + 3 * (IF chunk_type_id = 33 THEN 8 ELSE 4))
    \o write_u16(0) \o write_u16(3)
    \o Flatten([i \in 1..3 |-> VertexBytes(chunk_type_id, i - 1)])
    \o <<255, 0, 0, 0>>

\* A strip chunk with one strip of Abs(count) indices 0, 1, 2, 0, ..., the sign
\* of count being the winding flag, closed by an END chunk.
PlistBytes(count) ==
    <<64, 0>> \o write_u16(2 + Abs(count)) \o write_u16(1)
    \o write_i16(count)
    \o Flatten([j \in 1..Abs(count) |-> write_u16((j - 1) % 3)])
    \o <<255, 0>>

ModelBytes(at, chunk_type_id, count) ==
    write_u32(at + 8) \o write_u32(at + 8 + Len(VlistBytes(chunk_type_id)))
    \o VlistBytes(chunk_type_id) \o PlistBytes(count)

\* A scene of MaxNodes nodes, node k at offset (k - 1) * 52, all with the one
\* model that follows the nodes; flags are the evaluation flags of node 2.
SceneBytes(child, sibling, flags, chunk_type_id, count) ==
    Flatten([k \in 1..MaxNodes |->
                NodeBytes(k, IF k = 2 THEN flags ELSE 0, MaxNodes * NODE_SIZE,
                          child[k], sibling[k])])
    \o ModelBytes(MaxNodes * NODE_SIZE, chunk_type_id, count)

\* Child and sibling links lead to later nodes only.
Links == {f \in [1..MaxNodes -> 0..MaxNodes] : \A k \in 1..MaxNodes : f[k] = 0 \/ f[k] > k}

NoLinks == [k \in 1..MaxNodes |-> 0]

\* Sibling links lead to the next node only.
SiblingLinks == {f \in Links : \A k \in 1..MaxNodes : f[k] \in {0, k + 1}}

\* A strip chunk with one strip of the given indices, sign being -1 or 1,
\* closed by an END chunk.
StripBytes(indices, sign) ==
    <<64, 0>> \o write_u16(2 + Len(indices)) \o write_u16(1)
    \o write_i16(sign * Len(indices))
    \o Flatten([j \in 1..Len(indices) |-> write_u16(indices[j])])
    \o <<255, 0>>

\* A model at offset at with that strip, and with the vertex chunk for slots
\* 0..2 or with no vertex list at all.
ModelWith(at, chunk_type_id, indices, sign) ==
    IF chunk_type_id = 0
    THEN write_u32(0) \o write_u32(at + 8) \o StripBytes(indices, sign)
    ELSE write_u32(at + 8) \o write_u32(at + 8 + Len(VlistBytes(chunk_type_id)))
         \o VlistBytes(chunk_type_id) \o StripBytes(indices, sign)

\* A root with one child, each with a model of its own.
TwoModels(first_type_id, first, second_type_id, second, sign) ==
    NodeBytes(1, 0, 2 * NODE_SIZE, 2, 0)
    \o NodeBytes(2, 0, 2 * NODE_SIZE + Len(ModelWith(0, first_type_id, first, sign)),
                 0, 0)
    \o ModelWith(2 * NODE_SIZE, first_type_id, first, sign)
    \o ModelWith(2 * NODE_SIZE + Len(ModelWith(0, first_type_id, first, sign)),
                 second_type_id, second, sign)

\* A model as ModelWith, its strip list led by the bytes lead.
ModelLed(at, chunk_type_id, lead, indices, sign) ==
    IF chunk_type_id = 0
    THEN write_u32(0) \o write_u32(at + 8) \o lead \o StripBytes(indices, sign)
    ELSE write_u32(at + 8) \o write_u32(at + 8 + Len(VlistBytes(chunk_type_id)))
         \o VlistBytes(chunk_type_id) \o lead \o StripBytes(indices, sign)

\* A root whose strip list starts with a CACHE_POLYGON_LIST chunk for slot
\* stored, and its child, without vertex list, whose strip list starts with
\* a DRAW_POLYGON_LIST chunk for slot drawn.
CachedModels(stored, drawn, sign) ==
    NodeBytes(1, 0, 2 * NODE_SIZE, 2, 0)
    \o NodeBytes(2, 0, 2 * NODE_SIZE
                        + Len(ModelLed(0, 33, <<4, stored>>, <<0, 1, 2>>, sign)),
                 0, 0)
    \o ModelLed(2 * NODE_SIZE, 33, <<4, stored>>, <<0, 1, 2>>, sign)
    \o ModelLed(2 * NODE_SIZE + Len(ModelLed(0, 33, <<4, stored>>, <<0, 1, 2>>, sign)),
                0, <<5, drawn>>, <<2, 1, 0, 2>>, sign)

CacheSlots == {0, 3}

\* Vertex i of a vertex chunk 32, 37 or 44, with inline as the 16-bit value
\* of the Ninja flags of chunks 37 and 44.
VertexBytesWith(chunk_type_id, i, inline) ==
    write_vector(RawPosition(i))
    \o (IF chunk_type_id = 44 THEN write_vector(RawNormal(i)) ELSE <<>>)
    \o (IF chunk_type_id = 32 THEN write_f32(F32One)
        ELSE write_u16(inline) \o write_u16(0))

\* A vertex chunk of Len(inline) vertices with start index index, closed
\* by a wide END chunk.
VlistWith(chunk_type_id, index, inline) ==
    <<chunk_type_id, 0>>
    \o write_u16(1 + Len(inline) * (IF chunk_type_id = 44 THEN 7 ELSE 4))
    \o write_u16(index) \o write_u16(Len(inline))
    \o Flatten([i \in 1..Len(inline) |->
                   VertexBytesWith(chunk_type_id, i - 1, inline[i])])
    \o <<255, 0, 0, 0>>

\* A single node with that vertex chunk and one strip.
IndexedModel(chunk_type_id, index, inline, indices) ==
    NodeBytes(1, 0, NODE_SIZE, 0, 0)
    \o write_u32(NODE_SIZE + 8)
    \o write_u32(NODE_SIZE + 8 + Len(VlistWith(chunk_type_id, index, inline)))
    \o VlistWith(chunk_type_id, index, inline) \o StripBytes(indices, 1)

\* A single node with a model, cut short: inside the node, inside the two
\* offsets of the model, before the END chunk of the strip list, or whole.
CutShort ==
    {SubSeq(NodeBytes(1, 0, NODE_SIZE, 0, 0) \o ModelWith(NODE_SIZE, 33, <<0, 1, 2>>, 1),
            1, n) :
        n \in {NODE_SIZE - 4, NODE_SIZE + 4,
                NODE_SIZE + Len(ModelWith(NODE_SIZE, 33, <<0, 1, 2>>, 1)) - 2}}

\* A root without model whose child names itself as its sibling.
SelfSibling == NodeBytes(1, 0, 0, 2, 0) \o NodeBytes(2, 0, 0, 0, 2)

\* A root without model, with the given evaluation flags, and its child
\* with a model.
BareRoot(flags) ==
    NodeBytes(1, flags, 0, 2, 0) \o NodeBytes(2, 0, 2 * NODE_SIZE, 0, 0)
    \o ModelWith(2 * NODE_SIZE, 33, <<0, 1, 2>>, 1)

\* Indices of strips: slots 0 and 2 are written by the vertex chunk, slot 5
\* never is.
IndexLists ==
    {l \in SeqsUpTo({0, 2, 5}, MaxIndices) : Len(l) >= 3 /\ l[Len(l)] # 5}

Scenes ==
    {SceneBytes(child, sibling, flags, 32, 3) :
        child \in Links, sibling \in SiblingLinks, flags \in {0, 1, 2, 4, 8, 16, 32}}
    \cup {SceneBytes(NoLinks, NoLinks, 0, chunk_type_id, count) :
            chunk_type_id \in {32, 33}, count \in (0 - MaxIndices)..MaxIndices}
    \cup {NodeBytes(1, 0, NODE_SIZE, 0, 0) \o ModelWith(NODE_SIZE, 33, l, sign) :
            l \in IndexLists, sign \in {-1, 1}}
    \cup {TwoModels(33, <<0, 1, 2>>, 0, <<5, 0, 1, 2>>, sign) : sign \in {-1, 1}}
    \cup {TwoModels(0, <<0, 1, 2>>, 33, <<2, 1, 0>>, sign) : sign \in {-1, 1}}
    \cup {CachedModels(stored, drawn, sign) :
            stored \in CacheSlots, drawn \in CacheSlots, sign \in {-1, 1}}
    \cup {BareRoot(flags) : flags \in {0, 8, 16, 24}}
    \cup {IndexedModel(chunk_type_id, index, <<2, 0, 1>>, <<1, 2, 3>>) :
            chunk_type_id \in {32, 37, 44}, index \in {0, 1}}
    \cup CutShort
    \cup {SelfSibling}
    \cup {<<>>}

\* The buffers of the calls of parse_njcm after the first.
NextScenes ==
    {CachedModels(0, 3, 1), CachedModels(3, 3, 1),
     TwoModels(0, <<0, 1, 2>>, 33, <<2, 1, 0>>, 1)}

Task(kind, offset, matrix, via, from) ==
    [kind |-> kind, offset |-> offset, matrix |-> matrix, via |-> via, from |-> from]

InitNj ==
    /\ n_bytes \in Scenes
    /\ n_pc = "start"
    /\ n_stack = <<>>
    /\ n_positions = <<>>
    /\ n_normals = <<>>
    /\ n_cached = <<>>
    /\ n_vertices = <<>>
    /\ n_warn = <<>>
    /\ n_err = ""
    /\ n_visits = <<>>
    /\ n_models = <<>>
    /\ n_earlier = <<>>
    /\ IdleScript
    /\ IdleDat
    /\ IdleQst
    /\ IdleLong
    /\ IdleAssets

\* ---- parse_njcm

sibling_target_self(node_offset, sibling_offset) == node_offset

\* cursor.seek_start(sibling_offset) before the call for the sibling.
sibling_target(node_offset, sibling_offset) == sibling_offset

sibling_parent_own(parent_matrix, matrix) == matrix

\* The matrix handed to the call for the sibling.
sibling_parent(parent_matrix, matrix) == parent_matrix

\* The matrix handed to the call for the child.
child_parent(parent_matrix, matrix) == matrix

\* if (model_offset && !hidden)
model_parsed(model_offset, hidden) == model_offset # 0 /\ ~hidden

child_visited_always(child_offset, break_child_trace) == child_offset # 0

\* if (child_offset && !break_child_trace)
child_visited(child_offset, break_child_trace) ==
    child_offset # 0 /\ ~break_child_trace

\* if (sibling_offset)
sibling_visited(sibling_offset) == sibling_offset # 0

new_array_kept(old) == old

\* [] as an argument of parse_sibling_objects: an array of its own for
\* every call of parse_njcm, whatever an earlier call left in old.
new_array(old) == <<>>

\* parse_njcm on the buffer bytes, up to the first call of
\* parse_sibling_objects.
Called(bytes) ==
    /\ n_bytes' = bytes
    /\ IF Len(bytes) # 0
       THEN /\ n_pc' = "walk"
            /\ n_stack' = <<Task("node", 0, Matrix4Identity, "root", 0)>>
       ELSE /\ n_pc' = "null"
            /\ n_stack' = <<>>
    /\ n_positions' = <<>>
    /\ n_normals' = <<>>
    /\ n_cached' = new_array(n_cached)
    /\ n_vertices' = new_array(n_vertices)
    /\ n_warn' = <<>>
    /\ n_err' = ""
    /\ n_visits' = <<>>
    /\ n_models' = <<>>

\* The first call of parse_njcm.
ParseNjcm ==
    /\ n_pc = "start"
    /\ Called(n_bytes)
    /\ UNCHANGED n_earlier
    /\ UNCHANGED notNj

\* The call has returned, thrown or given null; parse_njcm is called for
\* another model.
ParseAgain ==
    /\ n_pc \in {"done", "error", "null"}
    /\ Len(n_earlier) < MaxCalls - 1
    /\ \E bytes \in NextScenes : Called(bytes)
    /\ n_earlier' = Append(n_earlier,
          [vertices |-> DOMAIN n_vertices, cached |-> DOMAIN n_cached])
    /\ UNCHANGED notNj

\* One call of parse_sibling_objects, up to the calls it makes: they are
\* put on the stack in the order they are made.
VisitNode ==
    /\ n_pc = "walk"
    /\ n_stack # <<>>
    /\ Head(n_stack).kind = "node"
    /\ Len(n_visits) < MaxVisits
    /\ LET call == Head(n_stack)
           parent_matrix == call.matrix
           node == node_record(n_bytes, call.offset)
           matrix == node_matrix(node, parent_matrix)
           me == Len(n_visits) + 1
           hidden == FlagSet(node.eval_flags, 3)
           break_child_trace == FlagSet(node.eval_flags, 4)
           calls ==
              (IF model_parsed(node.model_offset, hidden)
               THEN <<Task("model", node.model_offset, matrix, "model", me)>>
               ELSE <<>>)
              \o (IF child_visited(node.child_offset, break_child_trace)
                  THEN <<Task("node", node.child_offset,
                              child_parent(parent_matrix, matrix), "child", me)>>
                  ELSE <<>>)
              \o (IF sibling_visited(node.sibling_offset)
                  THEN <<Task("node", sibling_target(call.offset, node.sibling_offset),
                              sibling_parent(parent_matrix, matrix), "sibling", me)>>
                  ELSE <<>>)
       IN  IF call.offset + NODE_SIZE > Len(n_bytes)
           THEN /\ n_pc' = "error"
                /\ n_err' = "out of bounds"
                /\ UNCHANGED <<n_stack, n_visits>>
           ELSE /\ n_stack' = calls \o Tail(n_stack)
                /\ n_visits' = Append(n_visits,
                      [offset |-> call.offset, parent_matrix |-> parent_matrix,
                       matrix |-> matrix, via |-> call.via, from |-> call.from])
                /\ UNCHANGED <<n_pc, n_err>>
    /\ UNCHANGED <<n_bytes, n_positions, n_normals, n_cached, n_vertices,
                   n_warn, n_models, n_earlier>>
    /\ UNCHANGED notNj

\* The effect of one call of parse_model that returned r.
ModelParsed(call, r) ==
    /\ n_positions' = r.positions
    /\ n_normals' = r.normals
    /\ n_cached' = r.cache
    /\ n_vertices' = r.vertices
    /\ n_warn' = n_warn \o r.warn
    /\ n_err' = r.err
    /\ n_pc' = IF r.err # "" THEN "error" ELSE "walk"
    /\ n_stack' = Tail(n_stack)
    /\ n_models' = Append(n_models,
          [node |-> call.from, offset |-> call.offset, matrix |-> call.matrix,
           positions_before |-> Len(n_positions),
           normals_before |-> Len(n_normals),
           positions_after |-> Len(r.positions),
           normals_after |-> Len(r.normals),
           populated |-> r.populated,
           vertices |-> r.vertices,
           visits_before |-> Len(n_visits),
           cached_before |-> n_cached,
           cached_after |-> r.cache,
           err |-> r.err])

\* One call of parse_model.
ParseModel ==
    /\ n_pc = "walk"
    /\ n_stack # <<>>
    /\ Head(n_stack).kind = "model"
    /\ \E r \in {parse_model(n_bytes, Head(n_stack).offset, Head(n_stack).matrix,
                              n_positions, n_normals, n_cached, n_vertices)} :
          ModelParsed(Head(n_stack), r)
    /\ UNCHANGED <<n_bytes, n_visits, n_earlier>>
    /\ UNCHANGED notNj

\* parse_njcm after the traversal: the geometry is returned.
ReturnGeometry ==
    /\ n_pc = "walk"
    /\ n_stack = <<>>
    /\ n_pc' = "done"
    /\ UNCHANGED <<n_bytes, n_stack, n_positions, n_normals, n_cached,
                   n_vertices, n_warn, n_err, n_visits, n_models, n_earlier>>
    /\ UNCHANGED notNj

NextNj ==
    \/ ParseNjcm
    \/ VisitNode
    \/ ParseModel
    \/ ReturnGeometry
    \/ ParseAgain

SpecNj == InitNj /\ [][NextNj]_vars

\* ---- properties of the model chunk parser

\* The traversal has ended.  The calls of parse_model are compared with what
\* was due then: the record of a call and the floats it added stay as they
\* are until the end.
Traversed == n_pc \in {"done", "error"}

\* The floats a call of parse_model added to positions.
PositionsOf(m) == SubSeq(n_positions, m.positions_before + 1, m.positions_after)

\* What parse_model gives for the model at offset when it starts from nothing
\* under matrix.
ModelAlone(offset, matrix) ==
    parse_model(n_bytes, offset, matrix, <<>>, <<>>, <<>>, <<>>)

\* The strips of the model at offset.
StripsAt(offset) ==
    strips_of(chunk_list(n_bytes, u32(n_bytes, offset + 4), <<>>, FALSE).chunks)

\* The vertex lists and the strip lists of the model at offset parse
\* without an error when nothing is cached: they draw no cached stream.
ListsParse(offset) ==
    /\ offset + 8 <= Len(n_bytes)
    /\ chunk_list(n_bytes, u32(n_bytes, offset), <<>>, TRUE).err = ""
    /\ chunk_list(n_bytes, u32(n_bytes, offset + 4), <<>>, FALSE).err = ""

\* The strip list offset of the model of call m.
PlistOf(m) == u32(n_bytes, m.offset + 4)

\* The stream at offset p holds no CACHE and no DRAW chunk and parses.
PlainStream(p, wide_end_chunks) ==
    /\ parse_chunks(n_bytes, p, <<>>, wide_end_chunks).err = ""
    /\ parse_chunks(n_bytes, p, <<>>, wide_end_chunks).cache = <<>>

\* The vertex list of the model at offset is absent or such a stream.
PlainVlist(offset) ==
    u32(n_bytes, offset) # 0 =>
        u32(n_bytes, offset) + 2 <= Len(n_bytes) /\ PlainStream(u32(n_bytes, offset), TRUE)

PlainStrips(p) == strips_of(parse_chunks(n_bytes, p, <<>>, FALSE).chunks)

\* The strips of the model of call m name only slots that its own vertex
\* list writes.
OwnVertices(m) ==
    ListsParse(m.offset) /\
        \A i \in 1..Len(StripsAt(m.offset)) :
            Range(StripsAt(m.offset)[i].indices)
               \subseteq ModelAlone(m.offset, m.matrix).populated

\* C6: the matrix of every node visited is its own local matrix
\* premultiplied by the matrix it was handed; the root is handed the
\* identity, a child the matrix of its parent node, and a sibling the matrix
\* its preceding sibling was handed (the shared parent's), never that
\* sibling's own matrix nor one of its descendants'; the geometry of a node
\* is placed with the node's matrix (the positions are compared once the
\* traversal has ended: nothing is ever taken out of positions; a model
\* whose strips name slots that an earlier model wrote, or that draws a
\* stream an earlier model cached, has those vertices as the earlier model
\* placed them).
C6_SiblingIsolation ==
    /\ \A k \in 1..Len(n_visits) :
          /\ n_visits[k].matrix
                = premultiply(local_matrix(node_record(n_bytes, n_visits[k].offset)),
                              n_visits[k].parent_matrix)
          /\ n_visits[k].via = "root" => n_visits[k].parent_matrix = Matrix4Identity
          /\ n_visits[k].via = "child" =>
                n_visits[k].parent_matrix = n_visits[n_visits[k].from].matrix
          /\ n_visits[k].via = "sibling" =>
                n_visits[k].parent_matrix = n_visits[n_visits[k].from].parent_matrix
    /\ \A i \in 1..Len(n_models) :
          /\ n_models[i].matrix = n_visits[n_models[i].node].matrix
          /\ (Traversed /\ OwnVertices(n_models[i])) =>
                PositionsOf(n_models[i])
                   = ModelAlone(n_models[i].offset,
                                n_visits[n_models[i].node].matrix).positions

\* A node below the root with a child of its own and a sibling: the sibling
\* was visited after that child, under a parent matrix that is not the
\* identity, and its geometry was emitted.
C6_Witness ==
    /\ n_pc = "done"
    /\ \E k \in 1..Len(n_visits) :
          /\ n_visits[k].via = "sibling"
          /\ n_visits[k].parent_matrix # Matrix4Identity
          /\ n_visits[n_visits[k].from].matrix # n_visits[k].parent_matrix
          /\ \E c \in 1..(k - 1) :
                /\ n_visits[c].via = "child"
                /\ n_visits[c].from = n_visits[k].from
          /\ \E i \in 1..Len(n_models) :
                /\ n_models[i].node = k
                /\ n_models[i].positions_after = n_models[i].positions_before + 9

RECURSIVE TrianglesDue(_)
TrianglesDue(strips) ==
    IF strips = <<>> THEN 0
    ELSE (IF Len(Head(strips).indices) >= 3 THEN Len(Head(strips).indices) - 2 ELSE 0)
         + TrianglesDue(Tail(strips))

AllPopulated(strips, populated) ==
    \A i \in 1..Len(strips) : Range(strips[i].indices) \subseteq populated

\* The call m of parse_model added 9 floats to positions and 9 to normals for
\* every triangle due, if every slot its strips name was populated.
CountedRight(m, strips) ==
    AllPopulated(strips, m.populated) =>
        /\ m.positions_after - m.positions_before = 9 * TrianglesDue(strips)
        /\ m.normals_after - m.normals_before = 9 * TrianglesDue(strips)

\* C7: a strip of n >= 3 indices whose vertex slots are all populated adds
\* n - 2 triangles, each 9 floats to positions and 9 floats to normals; a
\* strip of fewer than 3 indices adds none.
C7_TriangleCount ==
    \A i \in 1..Len(n_models) :
        (Traversed /\ ListsParse(n_models[i].offset)) =>
            CountedRight(n_models[i], StripsAt(n_models[i].offset))

\* A single node whose strip of 4 indices gave 2 triangles.
C7_Witness ==
    /\ n_pc = "done"
    /\ Len(n_visits) = 1
    /\ Len(n_models) = 1
    /\ Len(StripsAt(n_models[1].offset)) = 1
    /\ Len(StripsAt(n_models[1].offset)[1].indices) = 4
    /\ Len(n_positions) = 18
    /\ Len(n_normals) = 18

\* The slots of position j of a strip (j from 0, j >= 2) and of the two
\* positions before it.
SlotsAt(strip, j) == <<strip.indices[j - 1], strip.indices[j], strip.indices[j + 1]>>

\* The floats due for position j of a strip: the triangle if its three
\* slots are in written, with the first two exchanged unless j mod 2 agrees
\* with the winding flag; nothing otherwise.
TriangleDue(strip, written, j) ==
    LET slots == SlotsAt(strip, j)
        agrees == (j % 2 = 1) <=> strip.clockwise_winding
    IN  IF Range(slots) \subseteq DOMAIN written
        THEN (IF agrees
              THEN written[slots[1]].position \o written[slots[2]].position
              ELSE written[slots[2]].position \o written[slots[1]].position)
             \o written[slots[3]].position
        ELSE <<>>

PositionsDue(strips, written) ==
    Flatten([i \in 1..Len(strips) |->
        Flatten([k \in 1..(Len(strips[i].indices) - 2) |->
                    TriangleDue(strips[i], written, k + 1)])])

\* C19: for every strip position j >= 2, parse_model appends a triangle if
\* and only if the three slots i[j-2], i[j-1], i[j] have been written
\* earlier in the parse; otherwise nothing is appended for that j, no error
\* is raised, and the positions after it are still processed.
C19_UnpopulatedDropped ==
    \A i \in 1..Len(n_models) :
        (Traversed /\ ListsParse(n_models[i].offset)) =>
            /\ n_models[i].err = ""
            /\ PositionsOf(n_models[i])
                  = PositionsDue(StripsAt(n_models[i].offset), n_models[i].vertices)
            /\ n_models[i].normals_after - n_models[i].normals_before
                  = Len(PositionsOf(n_models[i]))

\* The model of a child without vertex list: position 2 of its strip names
\* the slot 5 that nothing wrote and gave no triangle, position 3 gave one
\* from the slots the root's model wrote.
C19_Witness ==
    /\ n_pc = "done"
    /\ Len(n_models) = 2
    /\ u32(n_bytes, n_models[2].offset) = 0
    /\ StripsAt(n_models[2].offset)[1].indices = <<5, 0, 1, 2>>
    /\ n_models[2].positions_after = n_models[2].positions_before + 9
    /\ 5 \notin n_models[2].populated

\* The signed count of the one strip of the strip chunk a model's strip
\* list starts with.
RawCount(offset) == i16(n_bytes, u32(n_bytes, offset + 4) + 6)

OneStrip(offset) ==
    /\ ListsParse(offset)
    /\ u8(n_bytes, u32(n_bytes, offset + 4)) \in 64..75
    /\ u16(n_bytes, u32(n_bytes, offset + 4) + 4) = 1

\* The buffer with the sign of that count changed.
OtherSign(offset) ==
    Overwrite(n_bytes, u32(n_bytes, offset + 4) + 6, write_i16(0 - RawCount(offset)))

\* Every triangle of a list of floats with its two leading vertices
\* exchanged.
LeadingExchanged(floats) ==
    [k \in 1..Len(floats) |->
        IF (k - 1) % 9 < 3 THEN floats[k + 3]
        ELSE IF (k - 1) % 9 < 6 THEN floats[k - 3]
        ELSE floats[k]]

\* The triangles in the order the sign of the count asks for.
OrderedBySign(count, indices, written) ==
    Flatten([k \in 1..(Len(indices) - 2) |->
        IF {indices[k], indices[k + 1], indices[k + 2]} \subseteq DOMAIN written
        THEN (IF ((k + 1) % 2 = 1) <=> (count < 0)
              THEN written[indices[k]].position \o written[indices[k + 1]].position
              ELSE written[indices[k + 1]].position \o written[indices[k]].position)
             \o written[indices[k + 2]].position
        ELSE <<>>])

\* C20: the winding flag of a strip is the sign of its signed 16-bit count
\* and the index count is its magnitude; the triangle of position j is
\* emitted as (i[j-2], i[j-1], i[j]) when j mod 2 agrees with the flag and
\* as (i[j-1], i[j-2], i[j]) otherwise, and the strip with the other sign
\* emits every triangle with its two leading vertices exchanged.
C20_Winding ==
    \A i \in 1..Len(n_models) :
        (Traversed /\ OneStrip(n_models[i].offset)) =>
            LET m == n_models[i]
                strip == StripsAt(m.offset)[1]
            IN  /\ Len(StripsAt(m.offset)) = 1
                /\ Len(strip.indices) = Abs(RawCount(m.offset))
                /\ RawCount(m.offset) # 0 =>
                      (strip.clockwise_winding <=> RawCount(m.offset) < 0)
                /\ PositionsOf(m)
                      = OrderedBySign(RawCount(m.offset), strip.indices, m.vertices)
                /\ parse_model(OtherSign(m.offset), m.offset, m.matrix,
                               <<>>, <<>>, <<>>, m.vertices).positions
                      = LeadingExchanged(PositionsOf(m))

\* A strip with a negative count of 4 gave two triangles.
C20_Witness ==
    /\ n_pc = "done"
    /\ Len(n_models) = 1
    /\ OneStrip(n_models[1].offset)
    /\ RawCount(n_models[1].offset) = 0 - 4
    /\ Len(n_positions) = 18
    /\ SubSeq(n_positions, 1, 9) # SubSeq(n_positions, 10, 18)

\* The floats a call of parse_model added to normals.
NormalsOf(m) == SubSeq(n_normals, m.normals_before + 1, m.normals_after)

\* The strip list of call m starts with a chunk of the given type.
PlistLedBy(m, chunk_type_id) ==
    /\ m.offset + 8 <= Len(n_bytes)
    /\ PlistOf(m) # 0
    /\ PlistOf(m) + 2 <= Len(n_bytes)
    /\ u8(n_bytes, PlistOf(m)) = chunk_type_id
    /\ PlainVlist(m.offset)

\* C21: a type-4 chunk stores the offset just after its 2-byte header in
\* the cache slot given by its flags byte and ends the stream: the chunks
\* that follow it are not parsed, so the call adds no triangle.  A type-5
\* chunk parses the stream at the offset cached for the slot given by its
\* flags byte, and the chunks of that stream come before the chunks that
\* follow the type-5 chunk, with which parsing goes on.
C21_CacheDraw ==
    \A i \in 1..Len(n_models) :
        LET m == n_models[i]
            flags == u8(n_bytes, PlistOf(m) + 1)
        IN  /\ (Traversed /\ PlistLedBy(m, 4)) =>
                  /\ m.err = ""
                  /\ m.cached_after = (flags :> PlistOf(m) + 2) @@ m.cached_before
                  /\ PositionsOf(m) = <<>>
                  /\ NormalsOf(m) = <<>>
            /\ (/\ Traversed
                /\ PlistLedBy(m, 5)
                /\ flags \in DOMAIN m.cached_before
                /\ PlainStream(m.cached_before[flags], FALSE)
                /\ PlainStream(PlistOf(m) + 2, FALSE)) =>
                  /\ m.err = ""
                  /\ m.cached_after = m.cached_before
                  /\ PositionsOf(m)
                        = PositionsDue(PlainStrips(m.cached_before[flags])
                                       \o PlainStrips(PlistOf(m) + 2), m.vertices)

\* The root's strip list started with a type-4 chunk and gave no triangle;
\* the child's started with a type-5 chunk for the same slot and gave the
\* triangle of the root's strip, then the two of its own.
C21_Witness ==
    /\ n_pc = "done"
    /\ Len(n_models) = 2
    /\ PlistLedBy(n_models[1], 4)
    /\ PlistLedBy(n_models[2], 5)
    /\ u8(n_bytes, PlistOf(n_models[2]) + 1) = 3
    /\ n_models[2].cached_before = (3 :> PlistOf(n_models[1]) + 2)
    /\ PositionsOf(n_models[1]) = <<>>
    /\ Len(PositionsOf(n_models[2])) = 27
    /\ Len(PlainStrips(PlistOf(n_models[1]) + 2)) = 1
    /\ Len(PlainStrips(PlistOf(n_models[2]) + 2)) = 1

\* The flags and the three offsets of the node record at offset p.
NodeLinks(p) ==
    [eval_flags |-> u32(n_bytes, p), model_offset |-> u32(n_bytes, p + 4),
     child_offset |-> u32(n_bytes, p + 44), sibling_offset |-> u32(n_bytes, p + 48)]

\* The calls of parse_model made for the node of visit k.
ModelsOf(k) == {i \in 1..Len(n_models) : n_models[i].node = k}

\* The visits made from visit k for its child, or for its sibling.
VisitsFrom(k, via) ==
    {j \in 1..Len(n_visits) : n_visits[j].from = k /\ n_visits[j].via = via}

Hidden(k) == FlagSet(u32(n_bytes, n_visits[k].offset), 3)
BreakChildTrace(k) == FlagSet(u32(n_bytes, n_visits[k].offset), 4)

\* The visits after k up to last were all made below visit k's child.
ChildSubtree(k, last) ==
    \A j \in (k + 1)..last :
        IF j = k + 1 THEN n_visits[j].from = k /\ n_visits[j].via = "child"
        ELSE n_visits[j].from > k

\* C22: when the traversal has returned, the geometry of a node visited was
\* parsed iff its model offset is nonzero and the hidden flag is clear, its
\* child was visited iff its child offset is nonzero and the
\* stop-descending flag is clear, and its sibling was visited iff its
\* sibling offset is nonzero, each independently of the other flags; the
\* geometry was parsed before any further node was visited, the child was
\* visited next, and the sibling after all visits below the child.
C22_FlagsGate ==
    n_pc = "done" =>
        \A k \in 1..Len(n_visits) :
            LET node == NodeLinks(n_visits[k].offset)
            IN  /\ Cardinality(ModelsOf(k))
                      = (IF node.model_offset # 0 /\ ~Hidden(k) THEN 1 ELSE 0)
                /\ \A i \in ModelsOf(k) :
                      /\ n_models[i].offset = node.model_offset
                      /\ n_models[i].visits_before = k
                /\ Cardinality(VisitsFrom(k, "child"))
                      = (IF node.child_offset # 0 /\ ~BreakChildTrace(k) THEN 1 ELSE 0)
                /\ \A c \in VisitsFrom(k, "child") :
                      c = k + 1 /\ n_visits[c].offset = node.child_offset
                /\ Cardinality(VisitsFrom(k, "sibling"))
                      = (IF node.sibling_offset # 0 THEN 1 ELSE 0)
                /\ \A v \in VisitsFrom(k, "sibling") :
                      /\ n_visits[v].offset = node.sibling_offset
                      /\ ChildSubtree(k, v - 1)
                      /\ VisitsFrom(k, "child") = {} => v = k + 1

\* A hidden node whose child and sibling were visited, in that order, and
\* whose geometry was not parsed.
C22_Witness ==
    /\ n_pc = "done"
    /\ \E k \in 1..Len(n_visits) :
          /\ Hidden(k)
          /\ NodeLinks(n_visits[k].offset).model_offset # 0
          /\ ModelsOf(k) = {}
          /\ \E c \in VisitsFrom(k, "child"), v \in VisitsFrom(k, "sibling") : c < v

\* A node with descent suppressed and a child offset: its geometry was
\* parsed and its sibling visited, its child was not.
C22_WitnessBreak ==
    /\ n_pc = "done"
    /\ \E k \in 1..Len(n_visits) :
          /\ BreakChildTrace(k)
          /\ NodeLinks(n_visits[k].offset).child_offset # 0
          /\ ModelsOf(k) # {}
          /\ VisitsFrom(k, "child") = {}
          /\ VisitsFrom(k, "sibling") # {}

\* The three components a vertex of the slot buffer is due to give to
\* normals: those of its normal, (0, 1, 0) for a vertex stored without one.
NormalDue(vertex) ==
    IF vertex.normal.kind = "Array"
    THEN <<Ratio(0, 1), Ratio(1, 1), Ratio(0, 1)>>
    ELSE vertex.normal.v

\* As TriangleDue, for normals.
TriangleNormalsDue(strip, written, j) ==
    LET slots == SlotsAt(strip, j)
        agrees == (j % 2 = 1) <=> strip.clockwise_winding
    IN  IF Range(slots) \subseteq DOMAIN written
        THEN (IF agrees
              THEN NormalDue(written[slots[1]]) \o NormalDue(written[slots[2]])
              ELSE NormalDue(written[slots[2]]) \o NormalDue(written[slots[1]]))
             \o NormalDue(written[slots[3]])
        ELSE <<>>

NormalsDue(strips, written) ==
    Flatten([i \in 1..Len(strips) |->
        Flatten([k \in 1..(Len(strips[i].indices) - 2) |->
                    TriangleNormalsDue(strips[i], written, k + 1)])])

\* The model at offset has a vertex chunk whose vertices carry no normal.
NoNormals(offset) ==
    /\ ListsParse(offset)
    /\ u32(n_bytes, offset) # 0
    /\ u8(n_bytes, u32(n_bytes, offset)) \in (32..50) \ ({33} \cup 41..47)

\* C23: a vertex of a vertex chunk without normals is stored with the
\* normal (0, 1, 0), and every triangle emitted gives, for each such vertex
\* it references, the three components 0, 1, 0 to normals.
C23_DefaultNormal ==
    \A i \in 1..Len(n_models) :
        (Traversed /\ NoNormals(n_models[i].offset)) =>
            /\ \A slot \in DOMAIN n_models[i].vertices :
                  n_models[i].vertices[slot].normal.kind = "Array" =>
                      n_models[i].vertices[slot].normal.v = <<0, 1, 0>>
            /\ NormalsOf(n_models[i])
                  = NormalsDue(StripsAt(n_models[i].offset), n_models[i].vertices)

\* The part of C23 about the slot buffer alone.
C23_StoredDefault ==
    \A i \in 1..Len(n_models) :
        (Traversed /\ NoNormals(n_models[i].offset)) =>
            \A slot \in DOMAIN n_models[i].vertices :
                n_models[i].vertices[slot].normal.kind = "Array" =>
                    n_models[i].vertices[slot].normal.v = <<0, 1, 0>>

\* The vertex list of the model at offset starts with a vertex chunk of set
\* 0 that lies inside the buffer.
VertexChunkAt(offset) ==
    /\ offset + 8 <= Len(n_bytes)
    /\ u32(n_bytes, offset) # 0
    /\ u32(n_bytes, offset) + 2 <= Len(n_bytes)
    /\ u8(n_bytes, u32(n_bytes, offset)) \in 32..50
    /\ u8(n_bytes, u32(n_bytes, offset) + 1) % 4 = 0
    /\ ListsParse(offset)

ChunkId(offset) == u8(n_bytes, u32(n_bytes, offset))
StartIndex(offset) == u16(n_bytes, u32(n_bytes, offset) + 4)
VertexCount(offset) == u16(n_bytes, u32(n_bytes, offset) + 6)

\* Where vertex i (from 0) of that chunk starts.
VertexAt(offset, i) ==
    u32(n_bytes, offset) + 8 + i * (12 + vertex_tail(ChunkId(offset)))

\* The 16-bit value read inline for vertex i of a chunk 37 or 44.
InlineIndex(offset, i) ==
    u16(n_bytes, VertexAt(offset, i) + (IF ChunkId(offset) = 44 THEN 24 ELSE 12))

\* The position of vertex i as parse_model stores it under matrix.
PlacedAt(offset, i, matrix) ==
    applyMatrix4([k \in 1..3 |->
                    f32_number(f32(n_bytes, VertexAt(offset, i) + 4 * (k - 1)))],
                 matrix)

\* The slot the claim names for vertex i, and the slot the code writes.
ExplicitSlot(offset, i) ==
    IF ChunkId(offset) \in {37, 44} THEN InlineIndex(offset, i)
    ELSE StartIndex(offset) + i

OffsetSlot(offset, i) ==
    IF ChunkId(offset) \in {37, 44} THEN StartIndex(offset) + InlineIndex(offset, i)
    ELSE StartIndex(offset) + i

\* After the call m, vertex i of the first vertex chunk is in slot(i),
\* unless a later vertex of the chunk went to the same slot.
Slotted(m, i, mine, later) ==
    mine \notin later =>
        /\ mine \in DOMAIN m.vertices
        /\ m.vertices[mine].position = PlacedAt(m.offset, i, m.matrix)

\* C24 as stated: in vertex chunks 37 and 44 vertex i is written to the
\* slot given by the 16-bit index read inline for it; in every other vertex
\* chunk to slot start-index + i.
C24_ExplicitIndex ==
    \A n \in 1..Len(n_models) :
        (Traversed /\ VertexChunkAt(n_models[n].offset)) =>
            \A i \in 0..(VertexCount(n_models[n].offset) - 1) :
                Slotted(n_models[n], i, ExplicitSlot(n_models[n].offset, i),
                        {ExplicitSlot(n_models[n].offset, j) :
                            j \in (i + 1)..(VertexCount(n_models[n].offset) - 1)})

\* C24 as amended: in vertex chunks 37 and 44 vertex i is written to slot
\* start-index + the 16-bit value read inline for it; in every other vertex
\* chunk to slot start-index + i.
C24_IndexOffset ==
    \A n \in 1..Len(n_models) :
        (Traversed /\ VertexChunkAt(n_models[n].offset)) =>
            \A i \in 0..(VertexCount(n_models[n].offset) - 1) :
                Slotted(n_models[n], i, OffsetSlot(n_models[n].offset, i),
                        {OffsetSlot(n_models[n].offset, j) :
                            j \in (i + 1)..(VertexCount(n_models[n].offset) - 1)})

\* A chunk 44 with start index 1 whose first vertex carries the inline
\* value 2: it is in slot 3, and the strip 1, 2, 3 gave its triangle.
C24_Witness ==
    /\ n_pc = "done"
    /\ Len(n_models) = 1
    /\ VertexChunkAt(n_models[1].offset)
    /\ ChunkId(n_models[1].offset) = 44
    /\ StartIndex(n_models[1].offset) = 1
    /\ InlineIndex(n_models[1].offset, 0) = 2
    /\ n_models[1].populated = {1, 2, 3}
    /\ n_models[1].vertices[3].position
          = PlacedAt(n_models[1].offset, 0, n_models[1].matrix)
    /\ Len(n_positions) = 9

\* What the slot buffer and the cache held when call i of parse_model began,
\* if they are shared with the calls before it and with nothing else.
VerticesBefore(i) == IF i = 1 THEN <<>> ELSE n_models[i - 1].vertices
CachedBefore(i) == IF i = 1 THEN <<>> ELSE n_models[i - 1].cached_after

\* C25: all calls of parse_model of one call of parse_njcm work on one slot
\* buffer and one cache, both empty when the call of parse_njcm begins,
\* whatever an earlier call left: after a call of parse_model the buffer
\* holds the vertices of its own vertex list, placed with its node's matrix,
\* and every other slot as the call before left it; the cache loses no
\* slot.
C25_SharedLifetime ==
    /\ n_models = <<>> => n_vertices = <<>> /\ n_cached = <<>>
    /\ n_models # <<>> =>
          /\ n_vertices = n_models[Len(n_models)].vertices
          /\ n_cached = n_models[Len(n_models)].cached_after
    /\ Traversed =>
          \A i \in 1..Len(n_models) :
              /\ n_models[i].cached_before = CachedBefore(i)
              /\ DOMAIN CachedBefore(i) \subseteq DOMAIN n_models[i].cached_after
              /\ (n_models[i].offset + 8 <= Len(n_bytes) /\ PlainVlist(n_models[i].offset)) =>
                     n_models[i].vertices
                        = ModelAlone(n_models[i].offset, n_models[i].matrix).vertices
                          @@ VerticesBefore(i)

\* A second call of parse_njcm, after one that left slot 0 in its cache: the
\* root's vertex list wrote slots 0..2 and its strip list cached slot 3;
\* the child, without vertex list, drew slot 3 and gave three triangles
\* from the root's vertices; slot 0 is not in the cache.
C25_Witness ==
    /\ n_pc = "done"
    /\ Len(n_earlier) = 1
    /\ n_earlier[1].cached = {0}
    /\ n_earlier[1].vertices # {}
    /\ Len(n_models) = 2
    /\ n_models[1].populated = {0, 1, 2}
    /\ u32(n_bytes, n_models[2].offset) = 0
    /\ n_models[2].vertices = n_models[1].vertices
    /\ DOMAIN n_models[2].cached_before = {3}
    /\ DOMAIN n_cached = {3}
    /\ Len(PositionsOf(n_models[2])) = 27

\* The offsets parse_sibling_objects goes on to from the node at offset p.
Followed(p) ==
    IF p + NODE_SIZE > Len(n_bytes) THEN {}
    ELSE LET node == NodeLinks(p)
         IN  (IF node.child_offset # 0 /\ ~FlagSet(node.eval_flags, 4)
              THEN {node.child_offset} ELSE {})
             \cup (IF node.sibling_offset # 0 THEN {node.sibling_offset} ELSE {})

\* The offsets reached from those of S.
RECURSIVE ReachedFrom(_)
ReachedFrom(S) ==
    IF UNION {Followed(p) : p \in S} \subseteq S THEN S
    ELSE ReachedFrom(S \cup UNION {Followed(p) : p \in S})

\* A node the traversal comes to is reached from itself.
NodeCycle == \E p \in ReachedFrom({0}) : p \in ReachedFrom(Followed(p))

Running == n_pc \in {"start", "walk"}
Returned == n_pc \in {"done", "error", "null"}

\* The calls of parse_sibling_objects and parse_model that the call of
\* parse_sibling_objects for the node at offset p leads to, itself included,
\* in a buffer without NodeCycle.
RECURSIVE CallsDue(_)
CallsDue(p) ==
    IF p + NODE_SIZE > Len(n_bytes) THEN 1
    ELSE LET node == NodeLinks(p)
         IN  1 + (IF node.model_offset # 0 /\ ~FlagSet(node.eval_flags, 3)
                  THEN 1 ELSE 0)
               + (IF node.child_offset # 0 /\ ~FlagSet(node.eval_flags, 4)
                  THEN CallsDue(node.child_offset) ELSE 0)
               + (IF node.sibling_offset # 0
                  THEN CallsDue(node.sibling_offset) ELSE 0)

RECURSIVE CallsPending(_)
CallsPending(stack) ==
    IF stack = <<>> THEN 0
    ELSE (IF Head(stack).kind = "model" THEN 1 ELSE CallsDue(Head(stack).offset))
         + CallsPending(Tail(stack))

\* The steps the call of parse_njcm has left at most: a natural number.
StepsLeft(pc, stack) ==
    IF pc = "start" THEN 2 + CallsDue(0)
    ELSE IF pc = "walk" THEN 1 + CallsPending(stack)
    ELSE 0

\* The call of parse_njcm is not held up.
CanStep ==
    \/ n_pc = "start"
    \/ n_stack = <<>>
    \/ Head(n_stack).kind = "model"
    \/ Len(n_visits) < MaxVisits

\* C29: a call of parse_njcm on a buffer in which no node is reached from
\* itself through the child and sibling offsets it follows returns or
\* throws: while it runs it can take a step, and every step takes the
\* number of steps left down, which is never below 0 (the chunk streams of
\* the buffers end or run off the buffer, and none draws itself).  On a
\* buffer with such a node the call does not return: nothing stops the
\* traversal from visiting the node again.
C29_Termination ==
    /\ []((Running /\ ~NodeCycle) => CanStep)
    /\ [][(Running /\ ~NodeCycle) =>
            StepsLeft(n_pc', n_stack') < StepsLeft(n_pc, n_stack)]_vars
    /\ [](NodeCycle => n_pc # "done")

\* A buffer whose strip list runs off its end: the call threw.
C29_Witness ==
    /\ n_pc = "error"
    /\ n_err = "out of bounds"
    /\ ~NodeCycle
    /\ Len(n_visits) = 1
    /\ Len(n_models) = 1
    /\ n_models[1].populated = {0, 1, 2}

\* The node that is its own sibling was visited over and over.
C29_WitnessCycle ==
    /\ NodeCycle
    /\ Len(n_visits) = MaxVisits
    /\ \A k \in 2..Len(n_visits) : n_visits[k].offset = NODE_SIZE

\* ------------------------------------------------------------------------
\* Area asset cache (get_area_render_data, get_area_collision_data)
\* ------------------------------------------------------------------------

\* The calls one run makes.
MaxRequests == 3

\* area_version_to_base_url: base_names, the name and the variants
base_names ==
    <<[name |-> "city00_00", variants |-> 1],
      [name |-> "forest01", variants |-> 1],
      [name |-> "forest02", variants |-> 1],
      [name |-> "cave01_", variants |-> 6],
      [name |-> "cave02_", variants |-> 5],
      [name |-> "cave03_", variants |-> 6],
      [name |-> "machine01_", variants |-> 6],
      [name |-> "machine02_", variants |-> 6],
      [name |-> "ancient01_", variants |-> 5],
      [name |-> "ancient02_", variants |-> 5],
      [name |-> "ancient03_", variants |-> 5],
      [name |-> "boss01", variants |-> 1],
      [name |-> "boss02", variants |-> 1],
      [name |-> "boss03", variants |-> 1],
      [name |-> "darkfalz00", variants |-> 1]>>

\* process.env.PUBLIC_URL
PUBLIC_URL == "/phantasmal"

DigitChars == <<"0", "1", "2", "3", "4", "5", "6", "7", "8", "9">>

\* String(n) of a natural number.
RECURSIVE String(_)
String(n) ==
    IF n < 10 THEN DigitChars[n + 1] ELSE String(n \div 10) \o DigitChars[(n % 10) + 1]

\* while (variant.length < 2) variant = '0' + variant
RECURSIVE pad_variant(_)
pad_variant(variant) ==
    IF Len(variant) < 2 THEN pad_variant("0" \o variant) ELSE variant

\* area_version_to_base_url: the URL, or the error thrown.
area_version_to_base_url(area_id, area_variant) ==
    IF 0 <= area_id /\ area_id < Len(base_names)
    THEN IF 0 <= area_variant /\ area_variant < base_names[area_id + 1].variants
         THEN [threw |-> FALSE,
               url |-> PUBLIC_URL \o "/maps/map_" \o base_names[area_id + 1].name
                         \o (IF base_names[area_id + 1].variants = 1 THEN ""
                             ELSE pad_variant(String(area_variant)))]
         ELSE [threw |-> TRUE, error |-> <<"Unknown variant", area_variant, area_id>>]
    ELSE [threw |-> TRUE, error |-> <<"Unknown area", area_id>>]

\* buffer_cache.get(url): <<>> is undefined, <<p>> is the promise p.
buffer_cache_get(cache, url) ==
    IF url \in DOMAIN cache THEN <<cache[url]>> ELSE <<>>

buffer_cache_set_not(cache, url, promise) == cache

\* buffer_cache.set(url, promise)
buffer_cache_set(cache, url, promise) ==
    [u \in DOMAIN cache \cup {url} |-> IF u = url THEN promise ELSE cache[u]]

\* A promise is the index of its entry in a_promises.
\* get_asset: what it returns and what it leaves behind.
get_asset(cache, promises, fetches, url) ==
    IF buffer_cache_get(cache, url) # <<>>
    THEN [promise |-> buffer_cache_get(cache, url)[1], hit |-> TRUE,
          cache |-> cache, promises |-> promises, fetches |-> fetches]
    ELSE [promise |-> Len(promises) + 1, hit |-> FALSE,
          cache |-> buffer_cache_set(cache, url, Len(promises) + 1),
          promises |-> Append(promises, [url |-> url, state |-> "pending"]),
          fetches |-> Append(fetches, url)]

\* The promises a_handed has for a URL.
HandedFor(handed, url) == IF url \in DOMAIN handed THEN handed[url] ELSE {}

\* get_area_asset, called with an area, a variant and 'render' or 'collision'.
get_area_asset(area_id, area_variant, type) ==
    \E base \in {area_version_to_base_url(area_id, area_variant)} :
       IF base.threw
       THEN /\ a_last' = [called |-> TRUE, area_id |-> area_id,
                          area_variant |-> area_variant, type |-> type,
                          rejected |-> TRUE, error |-> base.error]
            /\ UNCHANGED <<buffer_cache, a_promises, a_fetches, a_handed>>
       ELSE \E url \in {base.url \o (IF type = "render" THEN "n.rel" ELSE "c.rel")} :
            \E got \in {get_asset(buffer_cache, a_promises, a_fetches, url)} :
               /\ buffer_cache' = got.cache
               /\ a_promises' = got.promises
               /\ a_fetches' = got.fetches
               /\ a_handed' = [u \in DOMAIN a_handed \cup {url} |->
                                  IF u = url THEN HandedFor(a_handed, url) \cup {got.promise}
                                  ELSE a_handed[u]]
               /\ a_last' = [called |-> TRUE, area_id |-> area_id,
                             area_variant |-> area_variant, type |-> type,
                             rejected |-> FALSE, url |-> url,
                             promise |-> got.promise, hit |-> got.hit,
                             state |-> got.promises[got.promise].state]

\* The arguments the calls are made with: areas and variants that exist and
\* the ones next to them.
AreaIds == {-1, 0, 3, 15}

AreaVariants == {-1, 0, 1, 6}

InitAssets ==
    /\ buffer_cache = <<>>
    /\ a_promises = <<>>
    /\ a_fetches = <<>>
    /\ a_handed = <<>>
    /\ a_last = [called |-> FALSE]
    /\ a_calls = 0
    /\ IdleScript
    /\ IdleDat
    /\ IdleQst
    /\ IdleNj
    /\ IdleLong

GetAreaRenderData ==
    /\ a_calls < MaxRequests
    /\ a_calls' = a_calls + 1
    /\ \E area_id \in AreaIds, area_version \in AreaVariants :
          get_area_asset(area_id, area_version, "render")
    /\ UNCHANGED notAssets

GetAreaCollisionData ==
    /\ a_calls < MaxRequests
    /\ a_calls' = a_calls + 1
    /\ \E area_id \in AreaIds, area_version \in AreaVariants :
          get_area_asset(area_id, area_version, "collision")
    /\ UNCHANGED notAssets

\* The fetch of a URL and the reading of its body end well.
FetchFulfilled ==
    /\ \E p \in 1..Len(a_promises) :
          /\ a_promises[p].state = "pending"
          /\ a_promises' = [a_promises EXCEPT ![p].state = "fulfilled"]
    /\ UNCHANGED <<buffer_cache, a_fetches, a_handed, a_last, a_calls>>
    /\ UNCHANGED notAssets

\* The fetch of a URL fails, or the reading of its body does.
FetchRejected ==
    /\ \E p \in 1..Len(a_promises) :
          /\ a_promises[p].state = "pending"
          /\ a_promises' = [a_promises EXCEPT ![p].state = "rejected"]
    /\ UNCHANGED <<buffer_cache, a_fetches, a_handed, a_last, a_calls>>
    /\ UNCHANGED notAssets

NextAssets ==
    \/ GetAreaRenderData
    \/ GetAreaCollisionData
    \/ FetchFulfilled
    \/ FetchRejected

SpecAssets == InitAssets /\ [][NextAssets]_vars

\* ---- properties of the asset cache

\* The calls of fetch with one URL among fetches.
FetchesIn(fetches, url) == Cardinality({k \in 1..Len(fetches) : fetches[k] = url})

FetchesOf(url) == FetchesIn(a_fetches, url)

\* The area and the variant exist.
KnownArea(area_id, area_variant) ==
    /\ area_id \in 0..(Len(base_names) - 1)
    /\ area_variant \in 0..(base_names[area_id + 1].variants - 1)

\* C30: over the calls of get_area_render_data and get_area_collision_data,
\* calls made before an earlier fetch of the URL has settled included, fetch
\* is called at most once for every URL and every caller for a URL gets the
\* same promise, also when the fetch has failed; a call with an unknown area
\* or variant returns a rejected promise, fetches nothing and adds no entry
\* to the cache.
C30_SingleFetch ==
    /\ [](\A k \in 1..Len(a_fetches) : FetchesOf(a_fetches[k]) = 1)
    /\ [](\A url \in DOMAIN a_handed : Cardinality(a_handed[url]) = 1)
    /\ [][a_calls' # a_calls =>
            IF KnownArea(a_last'.area_id, a_last'.area_variant)
            THEN /\ ~a_last'.rejected
                 /\ FetchesIn(a_fetches', a_last'.url) = 1
                 /\ a_last'.url \in DOMAIN buffer_cache'
                 /\ a_last'.promise = buffer_cache'[a_last'.url]
            ELSE /\ a_last'.rejected
                 /\ a_fetches' = a_fetches
                 /\ buffer_cache' = buffer_cache]_vars

\* A second call for a URL was made while the fetch of the first had not
\* settled: it got the promise of the first and fetch was not called again.
C30_Witness ==
    /\ a_calls = 2
    /\ Len(a_fetches) = 1
    /\ ~a_last.rejected
    /\ a_last.hit
    /\ a_last.state = "pending"
    /\ a_handed[a_last.url] = {1}

\* A call for a URL whose fetch had failed got the promise of the first call.
C30_WitnessFailed ==
    /\ a_calls = 3
    /\ Len(a_fetches) = 1
    /\ ~a_last.rejected
    /\ a_last.hit
    /\ a_last.state = "rejected"
    /\ a_handed[a_last.url] = {1}

\* A call with an area that does not exist, after a fetch.
C30_WitnessUnknown ==
    /\ a_last.called
    /\ a_last.rejected
    /\ a_last.area_id = 15
    /\ Len(a_fetches) = 1
    /\ DOMAIN buffer_cache = {PUBLIC_URL \o "/maps/map_cave01_01c.rel"}

====
